---- MODULE Spec2Model ----
(***************************************************************************)
(* Model of the Spotify <-> Deezer playlist converter (src/app.py).        *)
(*                                                                         *)
(* The program is modelled in parts that share one module:                 *)
(*   - the track matcher (search_deezer_track, search_spotify_track),      *)
(*   - the paginated track listing (get_*_playlist_tracks),                *)
(*   - the playlist creation (create_*_playlist),                          *)
(*   - the conversion pipeline (convert_spotify_to_deezer and              *)
(*     convert_deezer_to_spotify),                                         *)
(*   - the Deezer OAuth flow with its local callback listener,             *)
(*   - the playlist URL parsers and convert_playlist_by_url,               *)
(*   - the normalization of the search terms,                              *)
(*   - the Deezer setup calls (setup_deezer, setup_deezer_oauth).          *)
(* Text is a sequence of one-character strings; Python's None is the empty *)
(* tuple and a present value x is the one-element tuple <<x>>.             *)
(***************************************************************************)
EXTENDS Integers, Sequences, FiniteSets, TLC

VARIABLES
    \* track matcher: one call of search_<dest>_track
    m_pc, m_dest, m_spotify, m_title, m_artist, m_resp, m_result,
    \* track listing: one call of get_<platform>_playlist_tracks
    f_pc, f_platform, f_spotify, f_pages, f_fail, f_result, f_requests, f_message,
    \* playlist creation: one call of create_<platform>_playlist
    c_pc, c_platform, c_spotify, c_token, c_name, c_ids, c_env, c_calls, c_ret, c_report,
    \* conversion pipeline: one call of convert_<source>_to_<destination>
    p_pc,              \* the phase the call is in
    p_source,          \* "spotify" (convert_spotify_to_deezer) or "deezer"
    p_spotify,         \* self.spotify is set
    p_token,           \* self.deezer_access_token
    p_arg_name,        \* the new_playlist_name the caller passed
    p_name,            \* new_playlist_name
    p_now,             \* int(time.time()) when the default name was made
    p_tracks,          \* tracks
    p_i,               \* i of `for i, track in enumerate(tracks, 1)`
    p_found_tracks,    \* found_tracks
    p_not_found,       \* not_found
    p_raised,          \* an exception left the call
    p_searches,        \* the search calls made: the track and what came back
    p_responses,       \* what the destination answered to each search call
    p_slept,           \* the milliseconds spent in time.sleep(0.1) so far
    p_creates,         \* the create_<destination>_playlist calls made
    p_calls,           \* the platform calls those issued
    p_success,         \* success
    \* Deezer OAuth: one call of DeezerOAuth.start_auth_flow on a new object
    a_pc,                  \* where the calling thread is
    a_socket,              \* the listening socket of httpd (port 8080)
    a_thread,              \* server_thread, which runs httpd.serve_forever
    a_shutdown_request,    \* httpd's shutdown request flag
    a_callback_received,   \* callback_received (a threading.Event)
    a_authorization_code,  \* self.authorization_code
    a_access_token,        \* self.access_token
    a_current,             \* the request do_GET is handling
    a_requests,            \* the requests the listener accepted so far
    a_responses,           \* the responses it sent: the request and the status
    a_opened,              \* webbrowser.open(auth_url) was called
    a_timed_out,           \* callback_received.wait returned False
    a_exchanges,           \* the codes sent to the token endpoint
    a_outcome,             \* what the token endpoint and /user/me answered
    a_message,             \* the last message the flow printed on its way out
    a_ret,                 \* what the call returned, or that it raised
    \* convert_playlist_by_url
    u_pc,                  \* where the call is
    u_url,                 \* the URL given
    u_heads,               \* what the HEAD requests for a short link do
    u_playlist_id,         \* what the parser returned
    u_requests,            \* the HEAD requests sent
    u_message,             \* the last message printed
    u_started,             \* the conversion that was called
    \* the normalization of a title or an artist name
    n_pc,                  \* where the part is
    n_text,                \* the text given
    n_clean,               \* the text normalized
    n_again,               \* the normalized text normalized again
    \* the Deezer setup calls of one session
    s_pc,                  \* where the part is
    s_token,               \* converter.deezer_access_token
    s_validated,           \* the tokens /user/me answered 200 for
    s_log                  \* the setup calls made so far

matchVars == <<m_pc, m_dest, m_spotify, m_title, m_artist, m_resp, m_result>>

fetchVars ==
    <<f_pc, f_platform, f_spotify, f_pages, f_fail, f_result, f_requests, f_message>>

createVars ==
    <<c_pc, c_platform, c_spotify, c_token, c_name, c_ids, c_env, c_calls, c_ret, c_report>>

pipeVars ==
    <<p_pc, p_source, p_spotify, p_token, p_arg_name, p_name, p_now, p_tracks, p_i,
      p_found_tracks, p_not_found, p_raised, p_searches, p_responses, p_slept, p_creates,
      p_calls, p_success>>

authVars ==
    <<a_pc, a_socket, a_thread, a_shutdown_request, a_callback_received,
      a_authorization_code, a_access_token, a_current, a_requests, a_responses,
      a_opened, a_timed_out, a_exchanges, a_outcome, a_message, a_ret>>

urlVars == <<u_pc, u_url, u_heads, u_playlist_id, u_requests, u_message, u_started>>

normVars == <<n_pc, n_text, n_clean, n_again>>

setupVars == <<s_pc, s_token, s_validated, s_log>>

vars == <<matchVars, fetchVars, createVars, pipeVars, authVars, urlVars, normVars, setupVars>>

\* what a part leaves alone: the variables of the other parts
notMatchVars == <<fetchVars, createVars, pipeVars, authVars, urlVars, normVars, setupVars>>
notFetchVars == <<matchVars, createVars, pipeVars, authVars, urlVars, normVars, setupVars>>
notCreateVars == <<matchVars, fetchVars, pipeVars, authVars, urlVars, normVars, setupVars>>
notPipeVars == <<matchVars, fetchVars, createVars, authVars, urlVars, normVars, setupVars>>
notAuthVars == <<matchVars, fetchVars, createVars, pipeVars, urlVars, normVars, setupVars>>
notUrlVars == <<matchVars, fetchVars, createVars, pipeVars, authVars, normVars, setupVars>>
notNormVars == <<matchVars, fetchVars, createVars, pipeVars, authVars, urlVars, setupVars>>
notSetupVars == <<matchVars, fetchVars, createVars, pipeVars, authVars, urlVars, normVars>>

None == <<>>
Some(x) == <<x>>

(***************************************************************************)
(* Text: str.lower(), re.sub(r'[^\w\s]', '', s) and the `in` operator.     *)
(***************************************************************************)
UpperLetters ==
    <<"A","B","C","D","E","F","G","H","I","J","K","L","M",
      "N","O","P","Q","R","S","T","U","V","W","X","Y","Z">>

LowerLetters ==
    <<"a","b","c","d","e","f","g","h","i","j","k","l","m",
      "n","o","p","q","r","s","t","u","v","w","x","y","z">>

Digits == {"0","1","2","3","4","5","6","7","8","9"}

Range(s) == {s[k] : k \in 1..Len(s)}

\* \w of a Python 3 str pattern: letters, digits and the underscore.
IsWordChar(c) == c \in Range(UpperLetters) \cup Range(LowerLetters) \cup Digits \cup {"_"}

\* \s: whitespace.
IsSpaceChar(c) == c = " "

LowerChar(c) ==
    IF \E k \in 1..Len(UpperLetters) : UpperLetters[k] = c
    THEN LowerLetters[CHOOSE k \in 1..Len(UpperLetters) : UpperLetters[k] = c]
    ELSE c

\* str.lower()
Lower(s) == [k \in 1..Len(s) |-> LowerChar(s[k])]

\* a variant of Clean that removes the first such character only
Clean_first_only(s) ==
    LET ks == {k \in 1..Len(s) : ~(IsWordChar(s[k]) \/ IsSpaceChar(s[k]))}
    IN  IF ks = {} THEN s
        ELSE LET first == CHOOSE k \in ks : \A j \in ks : k <= j
             IN  [k \in 1..(Len(s) - 1) |-> IF k < first THEN s[k] ELSE s[k + 1]]

\* re.sub(r'[^\w\s]', '', s)
Clean(s) == SelectSeq(s, LAMBDA c : IsWordChar(c) \/ IsSpaceChar(c))

\* a in b, for two str
IsIn(a, b) == \E k \in 0..(Len(b) - Len(a)) : SubSeq(b, k + 1, k + Len(a)) = a

(***************************************************************************)
(* The names used as inputs.                                               *)
(***************************************************************************)
Yesterday == <<"Y","e","s","t","e","r","d","a","y">>
YesterdayRemastered ==
    Yesterday \o <<" ","(","R","e","m","a","s","t","e","r","e","d"," ","2","0","0","9",")">>
Imagine == <<"I","m","a","g","i","n","e">>
Dont == <<"D","o","n","'","t">>
Bang == <<"!">>
TheBeatles == <<"T","h","e"," ","B","e","a","t","l","e","s">>
BeatlesLower == <<"b","e","a","t","l","e","s">>
JohnLennon == <<"J","o","h","n"," ","L","e","n","n","o","n">>
AcDc == <<"A","C","/","D","C">>

QueryTitles == {Yesterday, Imagine, Dont, Bang}
QueryArtists == {TheBeatles, JohnLennon, AcDc, <<>>}
CandidateTitles == {Yesterday, YesterdayRemastered, Dont, Bang}
CandidateArtists == {TheBeatles, BeatlesLower, AcDc}
\* the artists of a Spotify candidate: a list, which the API does not promise non-empty
CandidateArtistLists == {<<>>, <<TheBeatles>>, <<JohnLennon, BeatlesLower>>, <<AcDc>>}

\* the most candidates one search response carries (the request asks for 5)
MaxCands == 2

DeezerId(n) == [ns |-> "deezer", n |-> n]
SpotifyId(n) == [ns |-> "spotify", n |-> n]

SeqsUpTo(S, n) == UNION {[1..k -> S] : k \in 0..n}

\* the `data` of a Deezer search response: the k-th candidate carries the id k
DeezerCandidateLists ==
    {[k \in 1..Len(l) |-> [id |-> DeezerId(k), title |-> l[k][1], artist |-> l[k][2]]] :
        l \in SeqsUpTo(CandidateTitles \X CandidateArtists, MaxCands)}

\* results['tracks']['items'] of a Spotify search
SpotifyCandidateLists ==
    {[k \in 1..Len(l) |-> [id |-> SpotifyId(k), name |-> l[k][1], artists |-> l[k][2]]] :
        l \in SeqsUpTo(CandidateTitles \X CandidateArtistLists, MaxCands)}

\* What requests.get of the Deezer search answers: it raises, or it returns a
\* response with a status code and (for 200) a JSON body with `data`.
DeezerSearchResponses ==
    {[kind |-> "exception", status |-> 0, data |-> <<>>],
     [kind |-> "response", status |-> 500, data |-> <<>>]}
    \cup {[kind |-> "response", status |-> 200, data |-> d] : d \in DeezerCandidateLists}

\* What spotipy's search answers: it raises (transport failure or non-2xx
\* status) or it returns the decoded body.
SpotifySearchResponses ==
    {[kind |-> "exception", items |-> <<>>]}
    \cup {[kind |-> "response", items |-> d] : d \in SpotifyCandidateLists}

(***************************************************************************)
(* search_deezer_track                                                     *)
(***************************************************************************)
\* the test of the `for track in data['data']` loop
DeezerCandidatePasses(clean_title, clean_artist, track) ==
    LET track_title == Lower(track.title)
        track_artist == Lower(track.artist)
    IN  /\ (IsIn(Lower(clean_title), track_title) \/ IsIn(track_title, Lower(clean_title)))
        /\ (IsIn(Lower(clean_artist), track_artist) \/ IsIn(track_artist, Lower(clean_artist)))

DeezerTrackDict(track) == [id |-> track.id, title |-> track.title, artist |-> track.artist]

\* the loop from candidate k on, then the fall back on the first candidate
RECURSIVE DeezerBestMatch(_, _, _, _)
DeezerBestMatch(clean_title, clean_artist, data, k) ==
    IF k > Len(data) THEN DeezerTrackDict(data[1])
    ELSE IF DeezerCandidatePasses(clean_title, clean_artist, data[k])
         THEN DeezerTrackDict(data[k])
         ELSE DeezerBestMatch(clean_title, clean_artist, data, k + 1)

\* search_deezer_track without the fall back on the first candidate
search_deezer_track_strict(title, artist, resp) ==
    LET clean_title == Clean(title)
        clean_artist == Clean(artist)
    IN  IF resp.kind = "exception" THEN None
        ELSE IF /\ resp.status = 200
                /\ \E k \in 1..Len(resp.data) :
                      DeezerCandidatePasses(clean_title, clean_artist, resp.data[k])
             THEN Some(DeezerBestMatch(clean_title, clean_artist, resp.data, 1))
             ELSE None

search_deezer_track(title, artist, resp) ==
    LET clean_title == Clean(title)
        clean_artist == Clean(artist)
    IN  IF resp.kind = "exception" THEN None
        ELSE IF resp.status = 200 /\ resp.data # <<>>
             THEN Some(DeezerBestMatch(clean_title, clean_artist, resp.data, 1))
             ELSE None

(***************************************************************************)
(* search_spotify_track                                                    *)
(***************************************************************************)
SpotifyCandidatePasses(clean_title, clean_artist, track) ==
    LET track_title == Lower(track.name)
        track_artists == [k \in 1..Len(track.artists) |-> Lower(track.artists[k])]
    IN  /\ (IsIn(Lower(clean_title), track_title) \/ IsIn(track_title, Lower(clean_title)))
        /\ \E k \in 1..Len(track_artists) :
              \/ IsIn(Lower(clean_artist), track_artists[k])
              \/ IsIn(track_artists[k], Lower(clean_artist))

SpotifyTrackDict(track) == [id |-> track.id, title |-> track.name, artists |-> track.artists]

RECURSIVE SpotifyBestMatch(_, _, _, _)
SpotifyBestMatch(clean_title, clean_artist, items, k) ==
    IF k > Len(items) THEN SpotifyTrackDict(items[1])
    ELSE IF SpotifyCandidatePasses(clean_title, clean_artist, items[k])
         THEN SpotifyTrackDict(items[k])
         ELSE SpotifyBestMatch(clean_title, clean_artist, items, k + 1)

\* `spotify` is whether self.spotify is set
search_spotify_track(spotify, title, artist, resp) ==
    LET clean_title == Clean(title)
        clean_artist == Clean(artist)
    IN  IF ~spotify THEN None
        ELSE IF resp.kind = "exception" THEN None
        ELSE IF resp.items # <<>>
             THEN Some(SpotifyBestMatch(clean_title, clean_artist, resp.items, 1))
             ELSE None

(***************************************************************************)
(* The source playlist as the platform serves it: a sequence of pages, the *)
(* k-th answered to the k-th request with a `next` link exactly when a     *)
(* page follows. A playlist of no page answers the first request with no   *)
(* entry and no link. `fail` names the request that fails (0: none) and    *)
(* how: for Deezer an HTTP status or an exception of requests.get, for     *)
(* Spotify an exception of spotipy (transport failure or non-2xx status).  *)
(***************************************************************************)
DeezerItem(n, title, artist) == [id |-> DeezerId(n), title |-> title, artist |-> artist]

\* an entry of results['items']: item['track'] is null, or an object of a type
SpotifyItem(type, n, name, artists) ==
    [type |-> type, id |-> SpotifyId(n), name |-> name, artists |-> artists]

DzYesterday == DeezerItem(101, Yesterday, TheBeatles)
DzImagine == DeezerItem(102, Imagine, JohnLennon)
SpYesterday == SpotifyItem("track", 201, Yesterday, <<TheBeatles>>)
SpImagine == SpotifyItem("track", 202, Imagine, <<JohnLennon, TheBeatles>>)
SpEpisode == SpotifyItem("episode", 203, Dont, <<>>)
SpNullTrack == SpotifyItem("null", 0, <<>>, <<>>)
SpNoArtist == SpotifyItem("track", 204, Dont, <<>>)

DeezerPages == {<<>>, <<DzYesterday>>, <<DzImagine>>, <<DzYesterday, DzImagine>>}
SpotifyPages ==
    {<<>>, <<SpYesterday>>, <<SpYesterday, SpImagine>>, <<SpEpisode, SpImagine>>,
     <<SpNullTrack>>, <<SpNoArtist>>}

\* the most pages a playlist is served in
MaxPages == 2

NoFailure == [at |-> 0, kind |-> "none"]
DeezerFailureKinds == {"403", "404", "500", "exception"}
SpotifyFailureKinds == {"exception"}

\* the requests a traversal of n pages issues when none fails
RequestsFor(n) == IF n = 0 THEN 1 ELSE n

FetchFailures(n, kinds) ==
    {NoFailure} \cup {[at |-> k, kind |-> x] : k \in 1..RequestsFor(n), x \in kinds}

\* the body of the k-th response
PageData(pages, k) == IF k <= Len(pages) THEN pages[k] ELSE <<>>
\* data.get('next') / results['next'] of the k-th response is set
HasNext(pages, k) == k < Len(pages)

(***************************************************************************)
(* get_deezer_playlist_tracks                                              *)
(***************************************************************************)
DeezerTrackOf(track) ==
    [title |-> track.title, artist |-> track.artist, deezer_id |-> track.id]

DeezerTracksOf(data) == [k \in 1..Len(data) |-> DeezerTrackOf(data[k])]

\* a variant of the loop that takes 403 and 404 as any other status
RECURSIVE DeezerFetchLoop_no_403_404(_, _, _, _)
DeezerFetchLoop_no_403_404(pages, fail, k, tracks) ==
    IF fail.at = k
    THEN IF fail.kind \in {"500", "403", "404"}
         THEN [tracks |-> tracks, requests |-> k]
         ELSE [tracks |-> <<>>, requests |-> k]
    ELSE LET more == tracks \o DeezerTracksOf(PageData(pages, k))
         IN  IF HasNext(pages, k)
             THEN DeezerFetchLoop_no_403_404(pages, fail, k + 1, more)
             ELSE [tracks |-> more, requests |-> k]

\* the error message the listing prints for the request that fails (the text
\* before the variable part), "" when none fails
get_deezer_playlist_tracks_message(fail) ==
    CASE fail.kind = "403" -> "Playlist Deezer privee ou acces refuse"
      [] fail.kind = "404" -> "Playlist Deezer introuvable"
      [] fail.kind = "500" -> "Erreur acces playlist Deezer"
      [] fail.kind = "exception" -> "Erreur recuperation morceaux Deezer"
      [] OTHER -> ""

get_spotify_playlist_tracks_message(spotify, fail) ==
    IF spotify /\ fail.kind = "exception" THEN "Erreur recuperation morceaux Spotify"
    ELSE ""

\* the `while url` loop from the k-th request on
RECURSIVE DeezerFetchLoop(_, _, _, _)
DeezerFetchLoop(pages, fail, k, tracks) ==
    IF fail.at = k
    THEN IF fail.kind = "500"
         THEN [tracks |-> tracks, requests |-> k]
         ELSE [tracks |-> <<>>, requests |-> k]
    ELSE LET more == tracks \o DeezerTracksOf(PageData(pages, k))
         IN  IF HasNext(pages, k)
             THEN DeezerFetchLoop(pages, fail, k + 1, more)
             ELSE [tracks |-> more, requests |-> k]

\* a variant of get_deezer_playlist_tracks that does not follow the `next`
\* link of a page
get_deezer_playlist_tracks_first_page(pages, fail) ==
    IF fail.at = 1
    THEN DeezerFetchLoop(pages, fail, 1, <<>>)
    ELSE [tracks |-> DeezerTracksOf(PageData(pages, 1)), requests |-> 1]

get_deezer_playlist_tracks(pages, fail) == DeezerFetchLoop(pages, fail, 1, <<>>)

(***************************************************************************)
(* get_spotify_playlist_tracks                                             *)
(***************************************************************************)
\* if item['track'] and item['track']['type'] == 'track'
SpotifyIsTrack(item) == item.type = "track"

SpotifyTrackOf(track) ==
    [title |-> track.name,
     artist |-> IF track.artists # <<>> THEN track.artists[1] ELSE <<>>,
     artists |-> track.artists,
     spotify_id |-> track.id]

SpotifyTracksOf(items) ==
    LET kept == SelectSeq(items, SpotifyIsTrack)
    IN  [k \in 1..Len(kept) |-> SpotifyTrackOf(kept[k])]

RECURSIVE SpotifyFetchLoop(_, _, _, _)
SpotifyFetchLoop(pages, fail, k, tracks) ==
    IF fail.at = k
    THEN [tracks |-> <<>>, requests |-> k]
    ELSE LET more == tracks \o SpotifyTracksOf(PageData(pages, k))
         IN  IF HasNext(pages, k)
             THEN SpotifyFetchLoop(pages, fail, k + 1, more)
             ELSE [tracks |-> more, requests |-> k]

get_spotify_playlist_tracks(spotify, pages, fail) ==
    IF ~spotify THEN [tracks |-> <<>>, requests |-> 0]
    ELSE SpotifyFetchLoop(pages, fail, 1, <<>>)


(***************************************************************************)
(* Playlist creation. The calls a creation issues on the platform are      *)
(* logged in order; `ok` tells whether the platform accepted the call.     *)
(***************************************************************************)
\* Spotify takes at most this many items in one playlist_add_items call
BatchLimit == 100

Min(a, b) == IF a < b THEN a ELSE b

CurrentUserCall(ok) == [op |-> "current_user", name |-> <<>>, ids |-> <<>>, ok |-> ok]
CreateCall(name, ok) == [op |-> "create", name |-> name, ids |-> <<>>, ok |-> ok]
AddCall(ids, ok) == [op |-> "add", name |-> <<>>, ids |-> ids, ok |-> ok]

\* for i in range(0, len(track_ids), 100): playlist_add_items(id, track_ids[i:i+100])
\* from offset i on, the call of batch number j raising when fail = j
RECURSIVE SpotifyAddCalls(_, _, _, _)
SpotifyAddCalls(track_ids, i, j, fail) ==
    IF i >= Len(track_ids) THEN <<>>
    ELSE LET batch == SubSeq(track_ids, i + 1, Min(i + BatchLimit, Len(track_ids)))
         IN  IF fail = j THEN <<AddCall(batch, FALSE)>>
             ELSE <<AddCall(batch, TRUE)>>
                  \o SpotifyAddCalls(track_ids, i + BatchLimit, j + 1, fail)

AllOk(calls) == \A k \in 1..Len(calls) : calls[k].ok

\* create_spotify_playlist with every id sent in one playlist_add_items call
create_spotify_playlist_unbatched(spotify, name, track_ids, env) ==
    IF ~spotify THEN [calls |-> <<>>, ret |-> FALSE]
    ELSE IF env.user # "ok" THEN [calls |-> <<CurrentUserCall(FALSE)>>, ret |-> FALSE]
    ELSE IF env.create # "ok"
         THEN [calls |-> <<CurrentUserCall(TRUE), CreateCall(name, FALSE)>>, ret |-> FALSE]
    ELSE LET adds == IF track_ids # <<>> THEN <<AddCall(track_ids, env.add_fail # 1)>>
                     ELSE <<>>
         IN  [calls |-> <<CurrentUserCall(TRUE), CreateCall(name, TRUE)>> \o adds,
              ret |-> AllOk(adds)]

\* env.user, env.create: "ok" or "exception"; env.add_fail: the number of the
\* playlist_add_items call that raises (0: none)
create_spotify_playlist(spotify, name, track_ids, env) ==
    IF ~spotify THEN [calls |-> <<>>, ret |-> FALSE]
    ELSE IF env.user # "ok" THEN [calls |-> <<CurrentUserCall(FALSE)>>, ret |-> FALSE]
    ELSE IF env.create # "ok"
         THEN [calls |-> <<CurrentUserCall(TRUE), CreateCall(name, FALSE)>>, ret |-> FALSE]
    ELSE LET adds == IF track_ids # <<>>
                     THEN SpotifyAddCalls(track_ids, 0, 1, env.add_fail)
                     ELSE <<>>
         IN  [calls |-> <<CurrentUserCall(TRUE), CreateCall(name, TRUE)>> \o adds,
              ret |-> AllOk(adds)]

\* ','.join(map(str, track_ids)): the ids with a comma between two of them
IdToken(x) == [tok |-> "id", id |-> <<x>>]
CommaToken == [tok |-> "comma", id |-> <<>>]

JoinIds(track_ids) ==
    [k \in 1..(IF track_ids = <<>> THEN 0 ELSE 2 * Len(track_ids) - 1) |->
        IF k % 2 = 1 THEN IdToken(track_ids[(k + 1) \div 2]) ELSE CommaToken]

\* a variant of create_deezer_playlist that sends the add-tracks request for
\* an empty list too
create_deezer_playlist_always_adds(token, name, track_ids, env) ==
    IF token = None THEN [calls |-> <<>>, ret |-> FALSE]
    ELSE IF env.create \in {"exception", "500"}
         THEN [calls |-> <<CreateCall(name, FALSE)>>, ret |-> FALSE]
    ELSE IF env.create = "200"
         THEN [calls |-> <<CreateCall(name, TRUE), AddCall(JoinIds(track_ids), env.add = "200")>>,
               ret |-> env.add = "200"]
    ELSE [calls |-> <<CreateCall(name, TRUE)>>, ret |-> TRUE]

\* env.create: "exception", "500", "200_no_id" (a 200 whose body carries no
\* playlist id) or "200"; env.add: "exception", "500" or "200"
create_deezer_playlist(token, name, track_ids, env) ==
    IF token = None THEN [calls |-> <<>>, ret |-> FALSE]
    ELSE IF env.create \in {"exception", "500"}
         THEN [calls |-> <<CreateCall(name, FALSE)>>, ret |-> FALSE]
    ELSE IF env.create = "200" /\ track_ids # <<>>
         THEN [calls |-> <<CreateCall(name, TRUE), AddCall(JoinIds(track_ids), env.add = "200")>>,
               ret |-> env.add = "200"]
    ELSE [calls |-> <<CreateCall(name, TRUE)>>, ret |-> TRUE]

(***************************************************************************)
(* Each part at rest: what its variables hold while another part runs.     *)
(***************************************************************************)
UrlIdle ==
    /\ u_pc = "idle"
    /\ u_url = <<>>
    /\ u_heads = <<>>
    /\ u_playlist_id = None
    /\ u_requests = 0
    /\ u_message = ""
    /\ u_started = "none"

NormIdle ==
    /\ n_pc = "idle"
    /\ n_text = <<>>
    /\ n_clean = <<>>
    /\ n_again = <<>>

SetupIdle ==
    /\ s_pc = "idle"
    /\ s_token = None
    /\ s_validated = {}
    /\ s_log = <<>>

\* the parts added to the first five, at rest
OthersIdle == UrlIdle /\ NormIdle /\ SetupIdle

MatchIdle ==
    /\ m_pc = "idle"
    /\ m_dest = "none"
    /\ m_spotify = FALSE
    /\ m_title = <<>>
    /\ m_artist = <<>>
    /\ m_resp = [kind |-> "none"]
    /\ m_result = None

CreateIdle ==
    /\ c_pc = "idle"
    /\ c_platform = "none"
    /\ c_spotify = FALSE
    /\ c_token = None
    /\ c_name = <<>>
    /\ c_ids = <<>>
    /\ c_env = [kind |-> "none"]
    /\ c_calls = <<>>
    /\ c_ret = FALSE
    /\ c_report = [ret |-> FALSE, message |-> ""]

PipeIdle ==
    /\ p_pc = "idle"
    /\ p_source = "none"
    /\ p_spotify = FALSE
    /\ p_token = None
    /\ p_arg_name = None
    /\ p_name = None
    /\ p_now = 0
    /\ p_tracks = <<>>
    /\ p_i = 0
    /\ p_found_tracks = <<>>
    /\ p_not_found = <<>>
    /\ p_raised = FALSE
    /\ p_searches = <<>>
    /\ p_responses = <<>>
    /\ p_slept = 0
    /\ p_creates = <<>>
    /\ p_calls = <<>>
    /\ p_success = FALSE

NoRequest == [method |-> "none", path |-> "none", code |-> None, error_reason |-> None]

NoOutcome == [kind |-> "none", status |-> 0, has_token |-> FALSE, test |-> "none"]

AuthIdle ==
    /\ a_pc = "idle"
    /\ a_socket = "unbound"
    /\ a_thread = "none"
    /\ a_shutdown_request = FALSE
    /\ a_callback_received = FALSE
    /\ a_authorization_code = None
    /\ a_access_token = None
    /\ a_current = NoRequest
    /\ a_requests = 0
    /\ a_responses = <<>>
    /\ a_opened = FALSE
    /\ a_timed_out = FALSE
    /\ a_exchanges = <<>>
    /\ a_outcome = NoOutcome
    /\ a_message = ""
    /\ a_ret = "none"

FetchIdle ==
    /\ f_pc = "idle"
    /\ f_platform = "none"
    /\ f_spotify = FALSE
    /\ f_pages = <<>>
    /\ f_fail = NoFailure
    /\ f_result = <<>>
    /\ f_requests = 0
    /\ f_message = ""

(***************************************************************************)
(* SpecMatch: one search call on every query and every response.           *)
(***************************************************************************)
InitMatch ==
    /\ m_pc = "call"
    /\ m_title \in QueryTitles
    /\ m_artist \in QueryArtists
    /\ m_dest \in {"deezer", "spotify"}
    /\ m_spotify \in IF m_dest = "spotify" THEN BOOLEAN ELSE {TRUE}
    /\ m_resp \in IF m_dest = "deezer" THEN DeezerSearchResponses ELSE SpotifySearchResponses
    /\ m_result = None
    /\ FetchIdle /\ CreateIdle /\ PipeIdle /\ AuthIdle /\ OthersIdle

SearchDeezer ==
    /\ m_pc = "call"
    /\ m_dest = "deezer"
    /\ m_result' = search_deezer_track(m_title, m_artist, m_resp)
    /\ m_pc' = "returned"
    /\ UNCHANGED <<m_dest, m_spotify, m_title, m_artist, m_resp, notMatchVars>>

SearchSpotify ==
    /\ m_pc = "call"
    /\ m_dest = "spotify"
    /\ m_result' = search_spotify_track(m_spotify, m_title, m_artist, m_resp)
    /\ m_pc' = "returned"
    /\ UNCHANGED <<m_dest, m_spotify, m_title, m_artist, m_resp, notMatchVars>>

NextMatch == SearchDeezer \/ SearchSpotify

SpecMatch == InitMatch /\ [][NextMatch]_vars

\* the candidates the search of a returned call brought back (none when the
\* search raised, answered non-200, or was never issued)
MatchCandidates ==
    IF m_dest = "deezer"
    THEN IF m_resp.kind = "response" /\ m_resp.status = 200 THEN m_resp.data ELSE <<>>
    ELSE IF m_spotify /\ m_resp.kind = "response" THEN m_resp.items ELSE <<>>

MatchCandidateDict(k) ==
    IF m_dest = "deezer" THEN DeezerTrackDict(MatchCandidates[k])
    ELSE SpotifyTrackDict(MatchCandidates[k])

\* the call's candidate k passes the code's containment test
MatchPasses(k) ==
    IF m_dest = "deezer"
    THEN DeezerCandidatePasses(Clean(m_title), Clean(m_artist), MatchCandidates[k])
    ELSE SpotifyCandidatePasses(Clean(m_title), Clean(m_artist), MatchCandidates[k])

(***************************************************************************)
(* C1: whenever the destination search returned a non-empty candidate      *)
(* sequence, the search function returns a destination track, one of the   *)
(* candidates (an EXACT or a FALLBACK match), and never None.              *)
(***************************************************************************)
C1_NonEmptyNeverNone ==
    (m_pc = "returned" /\ MatchCandidates # <<>>) =>
        /\ m_result # None
        /\ \E k \in 1..Len(MatchCandidates) : m_result = Some(MatchCandidateDict(k))

\* a FALLBACK case on each platform: two candidates, none passes the test
C1_Witness ==
    /\ m_pc = "returned"
    /\ Len(MatchCandidates) = 2
    /\ \A k \in 1..2 : ~MatchPasses(k)
    /\ m_result = Some(MatchCandidateDict(1))

(***************************************************************************)
(* C2 (as claimed): the track returned is the first candidate whose        *)
(* NORMALIZED title contains or is contained in the normalized query title *)
(* and whose NORMALIZED artist contains or is contained in the normalized  *)
(* query artist, case-insensitively; when no candidate passes, the first.  *)
(* The code strips the punctuation of the query only: a candidate's title  *)
(* and artist are lower-cased, not stripped.                               *)
(***************************************************************************)
C2_Contains(a, b) == IsIn(a, b) \/ IsIn(b, a)

C2_ClaimedArtists(k) ==
    IF m_dest = "deezer" THEN {MatchCandidates[k].artist}
    ELSE Range(MatchCandidates[k].artists)

C2_ClaimedTitle(k) ==
    IF m_dest = "deezer" THEN MatchCandidates[k].title ELSE MatchCandidates[k].name

C2_ClaimedPasses(k) ==
    /\ C2_Contains(Lower(Clean(C2_ClaimedTitle(k))), Lower(Clean(m_title)))
    /\ \E a \in C2_ClaimedArtists(k) :
          C2_Contains(Lower(Clean(a)), Lower(Clean(m_artist)))

C2_ClaimedChoice ==
    IF \E k \in 1..Len(MatchCandidates) : C2_ClaimedPasses(k)
    THEN CHOOSE k \in 1..Len(MatchCandidates) :
            /\ C2_ClaimedPasses(k)
            /\ \A j \in 1..(k - 1) : ~C2_ClaimedPasses(j)
    ELSE 1

C2_FirstNormalizedMatch ==
    (m_pc = "returned" /\ MatchCandidates # <<>>) =>
        m_result = Some(MatchCandidateDict(C2_ClaimedChoice))

(***************************************************************************)
(* SpecFetch: one listing call on every playlist and every failure.        *)
(***************************************************************************)
InitFetch ==
    /\ f_pc = "call"
    /\ f_platform \in {"deezer", "spotify"}
    /\ f_spotify \in IF f_platform = "spotify" THEN BOOLEAN ELSE {TRUE}
    /\ f_pages \in SeqsUpTo(IF f_platform = "deezer" THEN DeezerPages ELSE SpotifyPages,
                            MaxPages)
    /\ f_fail \in FetchFailures(Len(f_pages),
                     IF f_platform = "deezer" THEN DeezerFailureKinds
                     ELSE SpotifyFailureKinds)
    /\ f_result = <<>>
    /\ f_requests = 0
    /\ f_message = ""
    /\ MatchIdle /\ CreateIdle /\ PipeIdle /\ AuthIdle /\ OthersIdle

FetchDeezer ==
    /\ f_pc = "call"
    /\ f_platform = "deezer"
    /\ LET r == get_deezer_playlist_tracks(f_pages, f_fail)
       IN  /\ f_result' = r.tracks
           /\ f_requests' = r.requests
    /\ f_message' = get_deezer_playlist_tracks_message(f_fail)
    /\ f_pc' = "returned"
    /\ UNCHANGED <<f_platform, f_spotify, f_pages, f_fail, notFetchVars>>

FetchSpotify ==
    /\ f_pc = "call"
    /\ f_platform = "spotify"
    /\ LET r == get_spotify_playlist_tracks(f_spotify, f_pages, f_fail)
       IN  /\ f_result' = r.tracks
           /\ f_requests' = r.requests
    /\ f_message' = get_spotify_playlist_tracks_message(f_spotify, f_fail)
    /\ f_pc' = "returned"
    /\ UNCHANGED <<f_platform, f_spotify, f_pages, f_fail, notFetchVars>>

NextFetch == FetchDeezer \/ FetchSpotify

SpecFetch == InitFetch /\ [][NextFetch]_vars

RECURSIVE Flatten(_)
Flatten(pages) == IF pages = <<>> THEN <<>> ELSE Head(pages) \o Flatten(Tail(pages))

\* the tracks of a sequence of entries, as the listing of the platform renders them
FetchTracksOf(entries) ==
    IF f_platform = "deezer" THEN DeezerTracksOf(entries) ELSE SpotifyTracksOf(entries)

\* the listing could issue requests: the Spotify one needs self.spotify
FetchClientReady == f_platform = "deezer" \/ f_spotify

(***************************************************************************)
(* C7 (as claimed): with every page request succeeding, the listing        *)
(* returns one track per entry of every page: no entry is dropped.         *)
(***************************************************************************)
C7_NoEntryDropped ==
    (f_pc = "returned" /\ FetchClientReady /\ f_fail.at = 0) =>
        Len(f_result) = Len(Flatten(f_pages))

(***************************************************************************)
(* C7 (amended): with the client ready and every page request succeeding,  *)
(* the listing requests every page, stops at the page without a next link, *)
(* and returns the concatenation in page order of the TRACK entries of all *)
(* pages; the Spotify listing skips the entries whose track is null or is  *)
(* not of type 'track'.                                                    *)
(***************************************************************************)
C7_PaginationComplete ==
    (f_pc = "returned" /\ FetchClientReady /\ f_fail.at = 0) =>
        /\ f_result = FetchTracksOf(Flatten(f_pages))
        /\ f_requests = RequestsFor(Len(f_pages))

\* two pages, the last one partial, every entry of the first returned before it
C7_Witness ==
    /\ f_pc = "returned"
    /\ FetchClientReady
    /\ f_fail.at = 0
    /\ Len(f_pages) = 2
    /\ Len(f_pages[1]) = 2
    /\ Len(f_pages[2]) = 1
    /\ Len(f_result) = 3

(***************************************************************************)
(* C8 (as claimed): a failure of a page request other than the first one   *)
(* truncates the listing: the tracks of the pages fetched before it are    *)
(* returned, in order.                                                     *)
(***************************************************************************)
C8_FailureTruncates ==
    (f_pc = "returned" /\ FetchClientReady /\ f_fail.at > 1) =>
        f_result = FetchTracksOf(Flatten(SubSeq(f_pages, 1, f_fail.at - 1)))

(***************************************************************************)
(* SpecCreate: one creation call on every number of ids and every outcome  *)
(* of the platform calls.                                                  *)
(***************************************************************************)
\* the most track ids handed to one creation
MaxIds == 201

TestName == <<"T","e","s","t">>
DeezerToken == <<"t","o","k">>

\* the playlist_add_items calls that k ids need
BatchesFor(k) == (k + BatchLimit - 1) \div BatchLimit

SpotifyCreateEnvs(k) ==
    {[user |-> "exception", create |-> "ok", add_fail |-> 0],
     [user |-> "ok", create |-> "exception", add_fail |-> 0]}
    \cup {[user |-> "ok", create |-> "ok", add_fail |-> j] : j \in 0..BatchesFor(k)}

DeezerCreateEnvs ==
    {[create |-> c, add |-> "200"] : c \in {"exception", "500", "200_no_id"}}
    \cup {[create |-> "200", add |-> a] : a \in {"exception", "500", "200"}}

(***************************************************************************)
(* What a creation reports: the value it returns and the message it        *)
(* prints (the text before the variable part of the message).              *)
(***************************************************************************)
Report(ret, message) == [ret |-> ret, message |-> message]

create_deezer_playlist_report(token, track_ids, env) ==
    IF token = None THEN Report(FALSE, "Token Deezer requis pour creer une playlist")
    ELSE IF env.create \in {"exception", "500"}
         THEN Report(FALSE, "Erreur creation playlist Deezer")
    ELSE IF env.create = "200" /\ track_ids # <<>>
         THEN IF env.add = "200" THEN Report(TRUE, "Playlist creee sur Deezer avec N morceaux")
              ELSE IF env.add = "500"
                   THEN Report(FALSE, "Erreur ajout morceaux a la playlist Deezer")
              ELSE Report(FALSE, "Erreur creation playlist Deezer")
    ELSE Report(TRUE, "Playlist creee sur Deezer (vide)")

create_spotify_playlist_report(spotify, track_ids, env) ==
    IF ~spotify THEN Report(FALSE, "")
    ELSE IF env.user # "ok" \/ env.create # "ok"
         THEN Report(FALSE, "Erreur creation playlist Spotify")
    ELSE IF track_ids # <<>> /\ env.add_fail \in 1..BatchesFor(Len(track_ids))
         THEN Report(FALSE, "Erreur creation playlist Spotify")
    ELSE Report(TRUE, "Playlist creee sur Spotify avec N morceaux")

InitCreate ==
    /\ c_pc = "call"
    /\ c_platform \in {"deezer", "spotify"}
    /\ c_spotify \in IF c_platform = "spotify" THEN BOOLEAN ELSE {TRUE}
    /\ c_token \in IF c_platform = "deezer" THEN {None, Some(DeezerToken)}
                   ELSE {Some(DeezerToken)}
    /\ c_name = TestName
    /\ c_ids \in {[k \in 1..n |-> k] : n \in 0..MaxIds}
    /\ c_env \in IF c_platform = "deezer" THEN DeezerCreateEnvs
                 ELSE SpotifyCreateEnvs(Len(c_ids))
    /\ c_calls = <<>>
    /\ c_ret = FALSE
    /\ c_report = [ret |-> FALSE, message |-> ""]
    /\ MatchIdle /\ FetchIdle /\ PipeIdle /\ AuthIdle /\ OthersIdle

CreateDeezer ==
    /\ c_pc = "call"
    /\ c_platform = "deezer"
    /\ LET r == create_deezer_playlist(c_token, c_name, c_ids, c_env)
       IN  /\ c_calls' = r.calls
           /\ c_ret' = r.ret
    /\ c_report' = create_deezer_playlist_report(c_token, c_ids, c_env)
    /\ c_pc' = "returned"
    /\ UNCHANGED <<c_platform, c_spotify, c_token, c_name, c_ids, c_env, notCreateVars>>

CreateSpotify ==
    /\ c_pc = "call"
    /\ c_platform = "spotify"
    /\ LET r == create_spotify_playlist(c_spotify, c_name, c_ids, c_env)
       IN  /\ c_calls' = r.calls
           /\ c_ret' = r.ret
    /\ c_report' = create_spotify_playlist_report(c_spotify, c_ids, c_env)
    /\ c_pc' = "returned"
    /\ UNCHANGED <<c_platform, c_spotify, c_token, c_name, c_ids, c_env, notCreateVars>>

NextCreate == CreateDeezer \/ CreateSpotify

SpecCreate == InitCreate /\ [][NextCreate]_vars

\* the add-track calls of the creation, in the order issued
CreateAdds == SelectSeq(c_calls, LAMBDA c : c.op = "add")

\* the ids a Deezer add-track call carries in its `songs` field
SongsOf(call) ==
    LET toks == SelectSeq(call.ids, LAMBDA t : t.tok = "id")
    IN  [k \in 1..Len(toks) |-> toks[k].id[1]]

RECURSIVE ConcatIds(_)
ConcatIds(calls) ==
    IF calls = <<>> THEN <<>> ELSE Head(calls).ids \o ConcatIds(Tail(calls))

IsPrefix(a, b) == Len(a) <= Len(b) /\ SubSeq(b, 1, Len(a)) = a

\* the client is authenticated and every call the creation issued succeeded,
\* the create call returning the id of the new playlist
CreateAllSucceeded ==
    IF c_platform = "spotify"
    THEN c_spotify /\ c_env.user = "ok" /\ c_env.create = "ok" /\ c_env.add_fail = 0
    ELSE c_token # None /\ c_env.create = "200" /\ c_env.add = "200"

(***************************************************************************)
(* C6: a creation with K ids whose calls all succeed issues, on Spotify,   *)
(* ceil(K/100) add-track calls which together carry the K ids in their     *)
(* order, none lost or repeated, and on Deezer one add-track call with the *)
(* K ids when K > 0 and none when K = 0. Whatever the outcomes, a Spotify  *)
(* add-track call carries at most 100 ids and the calls issued carry a     *)
(* prefix of the ids.                                                      *)
(***************************************************************************)
C6_BatchingLaw ==
    c_pc = "returned" =>
        /\ c_platform = "spotify" =>
              /\ \A k \in 1..Len(CreateAdds) : Len(CreateAdds[k].ids) \in 1..BatchLimit
              /\ IsPrefix(ConcatIds(CreateAdds), c_ids)
              /\ CreateAllSucceeded =>
                    /\ Len(CreateAdds) * BatchLimit >= Len(c_ids)
                    /\ (Len(CreateAdds) - 1) * BatchLimit < Len(c_ids) \/ c_ids = <<>>
                    /\ Len(CreateAdds) = 0 <=> c_ids = <<>>
                    /\ ConcatIds(CreateAdds) = c_ids
        /\ (c_platform = "deezer" /\ CreateAllSucceeded) =>
              /\ Len(CreateAdds) = (IF c_ids = <<>> THEN 0 ELSE 1)
              /\ \A k \in 1..Len(CreateAdds) : SongsOf(CreateAdds[k]) = c_ids

\* 201 ids go to Spotify in three calls
C6_Witness ==
    /\ c_pc = "returned"
    /\ c_platform = "spotify"
    /\ CreateAllSucceeded
    /\ Len(c_ids) > 2 * BatchLimit
    /\ Len(CreateAdds) = 3
    /\ Len(CreateAdds[3].ids) = Len(c_ids) - 2 * BatchLimit

(***************************************************************************)
(* The conversion pipeline: convert_spotify_to_deezer and                  *)
(* convert_deezer_to_spotify, one step per phase and per source track.     *)
(***************************************************************************)
DigitChars == <<"0","1","2","3","4","5","6","7","8","9">>

\* str(n) of a natural number
RECURSIVE DecimalText(_)
DecimalText(n) ==
    IF n < 10 THEN <<DigitChars[n + 1]>>
    ELSE DecimalText(n \div 10) \o <<DigitChars[(n % 10) + 1]>>

PlatformTitle(source) ==
    IF source = "spotify" THEN <<"S","p","o","t","i","f","y">>
    ELSE <<"D","e","e","z","e","r">>

\* f"From Spotify - {int(time.time())}" and f"From Deezer - {int(time.time())}"
DefaultName(source, now) ==
    <<"F","r","o","m"," ">> \o PlatformTitle(source) \o <<" ","-"," ">> \o DecimalText(now)

\* f"{track['artist']} - {track['title']}"
NotFoundLabel(track) == track.artist \o <<" ","-"," ">> \o track.title

\* `not new_playlist_name`: None or the empty string
NameMissing(name) == name = None \/ name = Some(<<>>)

\* the clock readings tried
Timestamps == {42, 1700}

\* the source playlists tried: their pages and the request that fails
SpotifySources ==
    {[pages |-> <<>>, fail |-> NoFailure],
     [pages |-> << <<SpYesterday, SpImagine>> >>, fail |-> NoFailure],
     [pages |-> << <<SpYesterday>>, <<SpEpisode, SpImagine>> >>, fail |-> NoFailure],
     [pages |-> << <<SpYesterday>>, <<SpImagine>> >>, fail |-> [at |-> 2, kind |-> "exception"]],
     [pages |-> << <<SpNoArtist>> >>, fail |-> NoFailure]}

DeezerSources ==
    {[pages |-> <<>>, fail |-> NoFailure],
     [pages |-> << <<DzYesterday, DzImagine>> >>, fail |-> NoFailure],
     [pages |-> << <<DzImagine>>, <<DzYesterday>> >>, fail |-> NoFailure],
     [pages |-> << <<DzYesterday>>, <<DzImagine>> >>, fail |-> [at |-> 2, kind |-> "500"]],
     [pages |-> << <<DzYesterday>> >>, fail |-> [at |-> 1, kind |-> "404"]]}

\* the answers of the destination search tried
PipeDeezerResponses ==
    {[kind |-> "exception", status |-> 0, data |-> <<>>],
     [kind |-> "response", status |-> 500, data |-> <<>>],
     [kind |-> "response", status |-> 200, data |-> <<>>],
     [kind |-> "response", status |-> 200,
      data |-> <<DeezerItem(301, YesterdayRemastered, TheBeatles)>>],
     [kind |-> "response", status |-> 200,
      data |-> <<DeezerItem(302, Dont, AcDc), DeezerItem(303, Imagine, JohnLennon)>>]}

SpotifyCandidate(n, name, artists) == [id |-> SpotifyId(n), name |-> name, artists |-> artists]

PipeSpotifyResponses ==
    {[kind |-> "exception", items |-> <<>>],
     [kind |-> "response", items |-> <<>>],
     [kind |-> "response",
      items |-> <<SpotifyCandidate(401, YesterdayRemastered, <<TheBeatles>>)>>],
     [kind |-> "response",
      items |-> <<SpotifyCandidate(402, Dont, <<>>),
                  SpotifyCandidate(403, Imagine, <<JohnLennon>>)>>]}

Init ==
    /\ p_pc = "FETCHING_SOURCE"
    /\ p_source \in {"spotify", "deezer"}
    /\ p_spotify \in BOOLEAN
    /\ p_token \in {None, Some(DeezerToken)}
    /\ p_arg_name \in {None, Some(<<>>), Some(TestName)}
    /\ p_name = p_arg_name
    /\ p_now = 0
    /\ p_tracks = <<>>
    /\ p_i = 0
    /\ p_found_tracks = <<>>
    /\ p_not_found = <<>>
    /\ p_raised = FALSE
    /\ p_searches = <<>>
    /\ p_responses = <<>>
    /\ p_slept = 0
    /\ p_creates = <<>>
    /\ p_calls = <<>>
    /\ p_success = FALSE
    /\ MatchIdle /\ FetchIdle /\ CreateIdle /\ AuthIdle /\ OthersIdle

\* a variant of AfterFetch that goes on with an empty list
AfterFetch_no_abort(tracks) ==
    /\ p_tracks' = tracks
    /\ p_pc' = "RESOLVING"

\* tracks = self.get_<source>_playlist_tracks(id); if not tracks: return
AfterFetch(tracks) ==
    /\ p_tracks' = tracks
    /\ p_pc' = IF tracks = <<>> THEN "ABORTED" ELSE "RESOLVING"

FetchSpotifySource ==
    /\ p_pc = "FETCHING_SOURCE"
    /\ p_source = "spotify"
    /\ \E src \in SpotifySources :
          AfterFetch(get_spotify_playlist_tracks(p_spotify, src.pages, src.fail).tracks)
    /\ UNCHANGED <<p_source, p_spotify, p_token, p_arg_name, p_name, p_now, p_i,
                   p_found_tracks, p_not_found, p_raised, p_searches, p_responses, p_slept, p_creates,
                   p_calls, p_success, notPipeVars>>

FetchDeezerSource ==
    /\ p_pc = "FETCHING_SOURCE"
    /\ p_source = "deezer"
    /\ \E src \in DeezerSources :
          AfterFetch(get_deezer_playlist_tracks(src.pages, src.fail).tracks)
    /\ UNCHANGED <<p_source, p_spotify, p_token, p_arg_name, p_name, p_now, p_i,
                   p_found_tracks, p_not_found, p_raised, p_searches, p_responses, p_slept, p_creates,
                   p_calls, p_success, notPipeVars>>

\* a variant of AfterSearch that keeps the id of the source track
AfterSearch_source_id(track, found) ==
    /\ p_i' = p_i + 1
    /\ p_searches' = Append(p_searches, [track |-> track, result |-> found])
    /\ IF found # None
       THEN /\ p_found_tracks' =
                  Append(p_found_tracks,
                         IF p_source = "spotify" THEN track.spotify_id ELSE track.deezer_id)
            /\ p_not_found' = p_not_found
       ELSE /\ p_not_found' = Append(p_not_found, NotFoundLabel(track))
            /\ p_found_tracks' = p_found_tracks

\* a variant of AfterSearch that lists every track as not found
AfterSearch_always_listed(track, found) ==
    /\ p_i' = p_i + 1
    /\ p_searches' = Append(p_searches, [track |-> track, result |-> found])
    /\ p_not_found' = Append(p_not_found, NotFoundLabel(track))
    /\ p_found_tracks' = IF found # None THEN Append(p_found_tracks, found[1].id)
                         ELSE p_found_tracks

\* the body of the loop once the search of `track` returned `found`
AfterSearch(track, found) ==
    /\ p_i' = p_i + 1
    /\ p_searches' = Append(p_searches, [track |-> track, result |-> found])
    /\ IF found # None
       THEN /\ p_found_tracks' = Append(p_found_tracks, found[1].id)
            /\ p_not_found' = p_not_found
       ELSE /\ p_not_found' = Append(p_not_found, NotFoundLabel(track))
            /\ p_found_tracks' = p_found_tracks

\* time.sleep(0.1) at the end of each turn of the loop, in milliseconds
InterCallDelay == 100

\* a variant of ResolveOnDeezer that searches a track once more, without a
\* pause, when its first search found nothing
ResolveOnDeezer_retries ==
    /\ p_pc = "RESOLVING"
    /\ p_source = "spotify"
    /\ ~p_raised
    /\ p_i < Len(p_tracks)
    /\ \E resp \in PipeDeezerResponses :
          LET track == p_tracks[p_i + 1]
              found == search_deezer_track(track.title, track.artist, resp)
          IN  IF found = None /\ Len(p_searches) = p_i
              THEN /\ p_searches' = Append(p_searches, [track |-> track, result |-> found])
                   /\ p_responses' = Append(p_responses, resp)
                   /\ UNCHANGED <<p_i, p_found_tracks, p_not_found, p_slept>>
              ELSE /\ AfterSearch(track, found)
                   /\ p_responses' = Append(p_responses, resp)
                   /\ p_slept' = p_slept + InterCallDelay
    /\ UNCHANGED <<p_pc, p_source, p_spotify, p_token, p_arg_name, p_name, p_now,
                   p_tracks, p_raised, p_creates, p_calls, p_success, notPipeVars>>

\* a variant of ResolveOnDeezer in which a failure of the search request
\* leaves search_deezer_track and ends the conversion
ResolveOnDeezer_failure_propagates ==
    /\ p_pc = "RESOLVING"
    /\ p_source = "spotify"
    /\ ~p_raised
    /\ p_i < Len(p_tracks)
    /\ \E resp \in PipeDeezerResponses :
          LET track == p_tracks[p_i + 1]
          IN  /\ AfterSearch(track, search_deezer_track(track.title, track.artist, resp))
              /\ p_responses' = Append(p_responses, resp)
              /\ p_raised' = (resp.kind = "exception")
              /\ p_slept' = IF p_raised' THEN p_slept ELSE p_slept + InterCallDelay
    /\ UNCHANGED <<p_pc, p_source, p_spotify, p_token, p_arg_name, p_name, p_now,
                   p_tracks, p_creates, p_calls, p_success, notPipeVars>>

\* one turn of the loop of convert_spotify_to_deezer
ResolveOnDeezer ==
    /\ p_pc = "RESOLVING"
    /\ p_source = "spotify"
    /\ ~p_raised
    /\ p_i < Len(p_tracks)
    /\ \E resp \in PipeDeezerResponses :
          LET track == p_tracks[p_i + 1]
          IN  /\ AfterSearch(track, search_deezer_track(track.title, track.artist, resp))
              /\ p_responses' = Append(p_responses, resp)
    /\ p_slept' = p_slept + InterCallDelay
    /\ UNCHANGED <<p_pc, p_source, p_spotify, p_token, p_arg_name, p_name, p_now,
                   p_tracks, p_raised, p_creates, p_calls, p_success, notPipeVars>>

\* one turn of the loop of convert_deezer_to_spotify; spotify_track['artists'][0]
\* of its print raises IndexError when the track found has no artist
ResolveOnSpotify ==
    /\ p_pc = "RESOLVING"
    /\ p_source = "deezer"
    /\ ~p_raised
    /\ p_i < Len(p_tracks)
    /\ \E resp \in PipeSpotifyResponses :
          LET track == p_tracks[p_i + 1]
              found == search_spotify_track(p_spotify, track.title, track.artist, resp)
          IN  /\ AfterSearch(track, found)
              /\ p_responses' = Append(p_responses, resp)
              /\ p_raised' = (found # None /\ found[1].artists = <<>>)
    /\ p_slept' = IF p_raised' THEN p_slept ELSE p_slept + InterCallDelay
    /\ UNCHANGED <<p_pc, p_source, p_spotify, p_token, p_arg_name, p_name, p_now,
                   p_tracks, p_creates, p_calls, p_success, notPipeVars>>

\* the loop ends
ResolveDone ==
    /\ p_pc = "RESOLVING"
    /\ ~p_raised
    /\ p_i = Len(p_tracks)
    /\ p_pc' = "CREATING_DESTINATION"
    /\ UNCHANGED <<p_source, p_spotify, p_token, p_arg_name, p_name, p_now, p_tracks, p_i,
                   p_found_tracks, p_not_found, p_raised, p_searches, p_responses, p_slept, p_creates,
                   p_calls, p_success, notPipeVars>>

\* if not new_playlist_name: new_playlist_name = f"From ... - {int(time.time())}"
DefaultTheName ==
    IF NameMissing(p_name)
    THEN \E now \in Timestamps :
            /\ p_now' = now
            /\ p_name' = Some(DefaultName(p_source, now))
    ELSE UNCHANGED <<p_now, p_name>>

\* a variant of AfterCreate that creates whatever was found
AfterCreate_always(r) ==
    /\ p_creates' = Append(p_creates, [name |-> p_name'[1], ids |-> p_found_tracks])
    /\ p_calls' = r.calls
    /\ p_success' = r.ret

\* if found_tracks: success = self.create_<destination>_playlist(name, found_tracks)
\* `r` is what that call would do
AfterCreate(r) ==
    IF p_found_tracks # <<>>
    THEN /\ p_creates' = Append(p_creates, [name |-> p_name'[1], ids |-> p_found_tracks])
         /\ p_calls' = r.calls
         /\ p_success' = r.ret
    ELSE UNCHANGED <<p_creates, p_calls, p_success>>

CreateOnDeezer ==
    /\ p_pc = "CREATING_DESTINATION"
    /\ p_source = "spotify"
    /\ DefaultTheName
    /\ \E env \in DeezerCreateEnvs :
          AfterCreate(create_deezer_playlist(p_token, p_name'[1], p_found_tracks, env))
    /\ p_pc' = "DONE"
    /\ UNCHANGED <<p_source, p_spotify, p_token, p_arg_name, p_tracks, p_i,
                   p_found_tracks, p_not_found, p_raised, p_searches, p_responses, p_slept, notPipeVars>>

CreateOnSpotify ==
    /\ p_pc = "CREATING_DESTINATION"
    /\ p_source = "deezer"
    /\ DefaultTheName
    /\ \E env \in SpotifyCreateEnvs(Len(p_found_tracks)) :
          AfterCreate(create_spotify_playlist(p_spotify, p_name'[1], p_found_tracks, env))
    /\ p_pc' = "DONE"
    /\ UNCHANGED <<p_source, p_spotify, p_token, p_arg_name, p_tracks, p_i,
                   p_found_tracks, p_not_found, p_raised, p_searches, p_responses, p_slept, notPipeVars>>

Next ==
    \/ FetchSpotifySource
    \/ FetchDeezerSource
    \/ ResolveOnDeezer
    \/ ResolveOnSpotify
    \/ ResolveDone
    \/ CreateOnDeezer
    \/ CreateOnSpotify

Spec == Init /\ [][Next]_vars

\* the searches that brought a track back, and those that brought none
PipeMatched == SelectSeq(p_searches, LAMBDA x : x.result # None)
PipeUnmatched == SelectSeq(p_searches, LAMBDA x : x.result = None)

(***************************************************************************)
(* C3: while the tracks are resolved, after the i-th one the resolved-id   *)
(* list and the unresolved list together hold i entries; the resolved-id   *)
(* list is the destination ids of the tracks whose search brought a track  *)
(* back, in source order, and the unresolved list is the "artist - title"  *)
(* of exactly the tracks whose search brought none, in source order; once  *)
(* the resolving is over every source track is in one of the two.          *)
(***************************************************************************)
C3_Accumulation ==
    /\ Len(p_found_tracks) + Len(p_not_found) = p_i
    /\ Len(p_searches) = p_i
    /\ p_i <= Len(p_tracks)
    /\ \A k \in 1..p_i : p_searches[k].track = p_tracks[k]
    /\ p_found_tracks = [k \in 1..Len(PipeMatched) |-> PipeMatched[k].result[1].id]
    /\ p_not_found =
          [k \in 1..Len(PipeUnmatched) |->
              PipeUnmatched[k].track.artist \o <<" ","-"," ">> \o PipeUnmatched[k].track.title]
    /\ p_pc \in {"CREATING_DESTINATION", "DONE"} => p_i = Len(p_tracks)

\* Yesterday matched by containment, Imagine not found
C3_Witness ==
    /\ p_pc = "DONE"
    /\ Len(p_tracks) = 2
    /\ p_tracks[1].title = Yesterday /\ p_tracks[1].artist = TheBeatles
    /\ p_tracks[2].title = Imagine /\ p_tracks[2].artist = JohnLennon
    /\ p_searches[1].result # None
    /\ p_searches[1].result[1].title = YesterdayRemastered
    /\ Len(p_found_tracks) = 1
    /\ p_not_found =
          << <<"J","o","h","n"," ","L","e","n","n","o","n"," ","-"," ",
               "I","m","a","g","i","n","e">> >>

(***************************************************************************)
(* C4: the phase moves only FETCHING_SOURCE -> RESOLVING (one step per     *)
(* source track, left when all are done) -> CREATING_DESTINATION -> DONE,  *)
(* or FETCHING_SOURCE -> ABORTED; the call is ABORTED exactly when the     *)
(* listing returned no track, and then it ended without an exception,      *)
(* with no search call and no playlist-creation call made.                 *)
(***************************************************************************)
C4_PhaseStep ==
    /\ p_pc' # p_pc =>
          <<p_pc, p_pc'>> \in {<<"FETCHING_SOURCE", "RESOLVING">>,
                               <<"FETCHING_SOURCE", "ABORTED">>,
                               <<"RESOLVING", "CREATING_DESTINATION">>,
                               <<"CREATING_DESTINATION", "DONE">>}
    /\ (p_pc = "RESOLVING" /\ p_pc' = "RESOLVING") => p_i' = p_i + 1
    /\ (p_pc = "RESOLVING" /\ p_pc' = "CREATING_DESTINATION") => p_i = Len(p_tracks)

C4_AbortedWhenEmpty ==
    /\ p_pc # "FETCHING_SOURCE" => (p_pc = "ABORTED" <=> p_tracks = <<>>)
    /\ p_pc = "ABORTED" =>
          /\ ~p_raised
          /\ p_searches = <<>>
          /\ p_creates = <<>>
          /\ p_calls = <<>>

C4_StateMachine == []C4_AbortedWhenEmpty /\ [][C4_PhaseStep]_vars

\* a Deezer playlist that is not found: the call is aborted
C4_Witness ==
    /\ p_pc = "ABORTED"
    /\ p_source = "deezer"
    /\ p_tracks = <<>>

(***************************************************************************)
(* C5: create_<destination>_playlist is called only in the step that ends  *)
(* CREATING_DESTINATION; it is called once, with the resolved ids in       *)
(* source order, when that list is not empty, under the name supplied or,  *)
(* when none was, "From <SourcePlatform> - <unix time>"; with an empty     *)
(* list the call ends with no creation call and no platform call.          *)
(***************************************************************************)
C5_ExpectedName ==
    IF p_arg_name # None /\ p_arg_name # Some(<<>>)
    THEN p_arg_name[1]
    ELSE <<"F","r","o","m"," ">>
         \o (IF p_source = "spotify" THEN <<"S","p","o","t","i","f","y">>
             ELSE <<"D","e","e","z","e","r">>)
         \o <<" ","-"," ">> \o DecimalText(p_now)

C5_CreateOnce ==
    /\ p_pc # "DONE" => (p_creates = <<>> /\ p_calls = <<>>)
    /\ p_pc = "DONE" =>
          IF p_found_tracks # <<>>
          THEN p_creates =
                  <<[name |-> C5_ExpectedName,
                     ids |-> [k \in 1..Len(PipeMatched) |-> PipeMatched[k].result[1].id]]>>
          ELSE p_creates = <<>> /\ p_calls = <<>>

\* no name supplied: one track found on Deezer goes in "From Spotify - 42"
C5_Witness ==
    /\ p_pc = "DONE"
    /\ p_arg_name = None
    /\ Len(p_creates) = 1
    /\ p_creates[1].name =
          <<"F","r","o","m"," ","S","p","o","t","i","f","y"," ","-"," ","4","2">>
    /\ p_creates[1].ids = <<DeezerId(301)>>

(***************************************************************************)
(* DeezerOAuth.start_auth_flow. Two threads: the caller, and server_thread *)
(* which runs httpd.serve_forever and, in it, CallbackHandler.do_GET for   *)
(* each request the listener accepts (TCPServer handles a request in the   *)
(* serving thread). serve_forever accepts a request only while no shutdown *)
(* was requested; httpd.shutdown() requests it and waits for the loop to   *)
(* end. Leaving the `with` block calls httpd.server_close(), which closes  *)
(* the socket and does not stop serve_forever.                             *)
(***************************************************************************)
\* the most requests that reach the listener during one flow
MaxRequests == 2

CodeOne == <<"c","1">>
CodeTwo == <<"c","2">>
AccessDenied == <<"a","c","c","e","s","s","_","d","e","n","i","e","d">>
TokenOne == <<"t","1">>

GetRequest(path, code, reason) ==
    [method |-> "GET", path |-> path, code |-> code, error_reason |-> reason]

\* a request with another method; the query is parsed the same way
OtherRequest(method, path, code) ==
    [method |-> method, path |-> path, code |-> code, error_reason |-> None]

\* the requests a browser (or any local client) may send to port 8080
IncomingRequests ==
    {GetRequest("/deezer_callback", Some(CodeOne), None),
     GetRequest("/deezer_callback", Some(CodeTwo), None),
     GetRequest("/deezer_callback", None, Some(AccessDenied)),
     GetRequest("/favicon.ico", None, None),
     OtherRequest("POST", "/deezer_callback", Some(CodeOne)),
     OtherRequest("HEAD", "/", None),
     OtherRequest("HEAD", "/favicon.ico", None)}

\* self.path.startswith('/deezer_callback')
IsCallbackPath(path) == path = "/deezer_callback"

\* the request reaches the first branch of do_GET
IsCallback(req) == req.method = "GET" /\ IsCallbackPath(req.path)

\* ... and the branch that stores the code
CarriesCode(req) == IsCallback(req) /\ req.code # None

\* The status a request is answered with. CallbackHandler overrides do_GET
\* only: HEAD is served by the do_HEAD it inherits from
\* SimpleHTTPRequestHandler (200 for the working directory, 404 for a file
\* that is not there) and a method with no do_ method is answered 501.
StatusFor(req) ==
    CASE req.method = "GET" ->
            IF IsCallbackPath(req.path)
            THEN IF req.code # None THEN 200 ELSE 400
            ELSE 404
      [] req.method = "HEAD" -> IF req.path = "/" THEN 200 ELSE 404
      [] OTHER -> 501

\* what the token endpoint and then /user/me answer: the request raises, or
\* a response with a status and with or without access_token in its body;
\* /user/me is asked only after a 200 response with access_token
ExchangeOutcomes ==
    {[kind |-> "exception", status |-> 0, has_token |-> FALSE, test |-> "none"]}
    \cup {[kind |-> "response", status |-> st, has_token |-> FALSE, test |-> "none"] :
              st \in {200, 204, 500}}
    \cup {[kind |-> "response", status |-> st, has_token |-> TRUE, test |-> "none"] :
              st \in {204, 500}}
    \cup {[kind |-> "response", status |-> 200, has_token |-> TRUE, test |-> x] :
              x \in {"200", "non200", "exception"}}

\* test_connection: True exactly when /user/me answers 200
test_connection(test) == test = "200"

\* a variant of exchange_code_for_token that returns True as soon as the
\* access token is there
exchange_code_for_token_unvalidated(token, out) ==
    IF out.kind = "response" /\ out.status = 200 /\ out.has_token
    THEN [access_token |-> Some(TokenOne), ret |-> TRUE]
    ELSE [access_token |-> token, ret |-> FALSE]

\* exchange_code_for_token from the request on: the access token the object
\* holds afterwards and the value returned
exchange_code_for_token(token, out) ==
    IF out.kind = "response" /\ out.status = 200 /\ out.has_token
    THEN [access_token |-> Some(TokenOne), ret |-> test_connection(out.test)]
    ELSE [access_token |-> token, ret |-> FALSE]

\* the message of `except OSError` (the text before the variable part)
LocalServerError == "Erreur serveur local"

\* the last message exchange_code_for_token (test_connection in it) prints
exchange_code_for_token_message(out) ==
    CASE out.kind = "exception" -> "Erreur lors de l'echange du token"
      [] out.kind = "response" /\ out.status # 200 -> "Erreur HTTP"
      [] out.kind = "response" /\ out.status = 200 /\ ~out.has_token -> "Erreur dans la reponse"
      [] out.test = "200" -> "Connexion Deezer reussie"
      [] out.test = "non200" -> "Token invalide"
      [] OTHER -> "Erreur test connexion"

InitAuth ==
    /\ a_pc = "bind"
    /\ a_socket = "unbound"
    /\ a_thread = "none"
    /\ a_shutdown_request = FALSE
    /\ a_callback_received = FALSE
    /\ a_authorization_code = None
    /\ a_access_token = None
    /\ a_current = NoRequest
    /\ a_requests = 0
    /\ a_responses = <<>>
    /\ a_opened = FALSE
    /\ a_timed_out = FALSE
    /\ a_exchanges = <<>>
    /\ a_outcome = NoOutcome
    /\ a_message = ""
    /\ a_ret = "none"
    /\ MatchIdle /\ FetchIdle /\ CreateIdle /\ PipeIdle /\ OthersIdle

\* leaving the `with socketserver.TCPServer(...) as httpd` block
WithExit == a_socket' = "closed"

\* socketserver.TCPServer(("", 8080), CallbackHandler) binds the port
BindOk ==
    /\ a_pc = "bind"
    /\ a_socket' = "bound"
    /\ a_pc' = "start_thread"
    /\ UNCHANGED <<a_thread, a_shutdown_request, a_callback_received, a_authorization_code,
                   a_access_token, a_current, a_requests, a_responses, a_opened,
                   a_timed_out, a_exchanges, a_ret, a_outcome, a_message, notAuthVars>>

\* ... or raises OSError (the port is taken): except OSError, return False
BindFails ==
    /\ a_pc = "bind"
    /\ a_pc' = "returned"
    /\ a_ret' = "false"
    /\ a_message' = LocalServerError
    /\ UNCHANGED <<a_socket, a_thread, a_shutdown_request, a_callback_received,
                   a_authorization_code, a_access_token, a_current, a_requests,
                   a_responses, a_opened, a_timed_out, a_exchanges, a_outcome, notAuthVars>>

\* a variant of StartThread that leaves the thread unstarted
StartThread_not_started ==
    /\ a_pc = "start_thread"
    /\ a_thread' = a_thread
    /\ a_pc' = "open_browser"
    /\ UNCHANGED <<a_socket, a_shutdown_request, a_callback_received, a_authorization_code,
                   a_access_token, a_current, a_requests, a_responses, a_opened,
                   a_timed_out, a_exchanges, a_ret, a_outcome, a_message, notAuthVars>>

\* server_thread.start()
StartThread ==
    /\ a_pc = "start_thread"
    /\ a_thread' = "serving"
    /\ a_pc' = "open_browser"
    /\ UNCHANGED <<a_socket, a_shutdown_request, a_callback_received, a_authorization_code,
                   a_access_token, a_current, a_requests, a_responses, a_opened,
                   a_timed_out, a_exchanges, a_ret, a_outcome, a_message, notAuthVars>>

\* get_auth_url, the two prints and webbrowser.open(auth_url)
OpenBrowser ==
    /\ a_pc = "open_browser"
    /\ a_opened' = TRUE
    /\ a_pc' = "wait"
    /\ UNCHANGED <<a_socket, a_thread, a_shutdown_request, a_callback_received,
                   a_authorization_code, a_access_token, a_current, a_requests,
                   a_responses, a_timed_out, a_exchanges, a_ret, a_outcome, a_message, notAuthVars>>

\* One of the calls between the bind and the wait raises (the start of the
\* thread, a print, webbrowser.open). The `with` block is left; an OSError is
\* caught by `except OSError` and the call returns False, any other exception
\* leaves the call.
FailBeforeWait ==
    /\ a_pc \in {"start_thread", "open_browser"}
    /\ WithExit
    /\ \E caught \in BOOLEAN :
          /\ a_pc' = IF caught THEN "returned" ELSE "raised"
          /\ a_ret' = IF caught THEN "false" ELSE "raised"
          /\ a_message' = IF caught THEN LocalServerError ELSE a_message
    /\ UNCHANGED <<a_thread, a_shutdown_request, a_callback_received, a_authorization_code,
                   a_access_token, a_current, a_requests, a_responses, a_opened,
                   a_timed_out, a_exchanges, a_outcome, notAuthVars>>

\* callback_received.wait(timeout=300) returns True: the event is set
WaitSignalled ==
    /\ a_pc = "wait"
    /\ a_callback_received
    /\ a_pc' = "shutdown"
    /\ UNCHANGED <<a_socket, a_thread, a_shutdown_request, a_callback_received,
                   a_authorization_code, a_access_token, a_current, a_requests,
                   a_responses, a_opened, a_timed_out, a_exchanges, a_ret, a_outcome, a_message, notAuthVars>>

\* ... or False: 300 seconds went by with the event not set
WaitTimesOut ==
    /\ a_pc = "wait"
    /\ ~a_callback_received
    /\ a_timed_out' = TRUE
    /\ a_pc' = "shutdown"
    /\ UNCHANGED <<a_socket, a_thread, a_shutdown_request, a_callback_received,
                   a_authorization_code, a_access_token, a_current, a_requests,
                   a_responses, a_opened, a_exchanges, a_ret, a_outcome, a_message, notAuthVars>>

\* httpd.shutdown(): first it requests the shutdown ...
ShutdownRequested ==
    /\ a_pc = "shutdown"
    /\ a_shutdown_request' = TRUE
    /\ a_pc' = "shutdown_wait"
    /\ UNCHANGED <<a_socket, a_thread, a_callback_received, a_authorization_code,
                   a_access_token, a_current, a_requests, a_responses, a_opened,
                   a_timed_out, a_exchanges, a_ret, a_outcome, a_message, notAuthVars>>

\* a variant of ShutdownReturns that looks at the code on the timeout path too
ShutdownReturns_code_after_timeout ==
    /\ a_pc = "shutdown_wait"
    /\ a_thread = "stopped"
    /\ IF a_authorization_code # None
       THEN /\ a_pc' = "exchange"
            /\ UNCHANGED <<a_socket, a_ret, a_message>>
       ELSE /\ WithExit
            /\ a_pc' = "returned"
            /\ a_ret' = "false"
            /\ a_message' = "Aucun code d'autorisation recu"
    /\ UNCHANGED <<a_thread, a_shutdown_request, a_callback_received, a_authorization_code,
                   a_access_token, a_current, a_requests, a_responses, a_opened,
                   a_timed_out, a_exchanges, a_outcome, notAuthVars>>

\* ... then it waits until serve_forever has ended. After it, on the timeout
\* path and when no code was captured, the call returns False.
ShutdownReturns ==
    /\ a_pc = "shutdown_wait"
    /\ a_thread = "stopped"
    /\ IF ~a_timed_out /\ a_authorization_code # None
       THEN /\ a_pc' = "exchange"
            /\ UNCHANGED <<a_socket, a_ret, a_message>>
       ELSE /\ WithExit
            /\ a_pc' = "returned"
            /\ a_ret' = "false"
            /\ a_message' = IF a_timed_out THEN "Timeout - Authentification non terminee"
                             ELSE "Aucun code d'autorisation recu"
    /\ UNCHANGED <<a_thread, a_shutdown_request, a_callback_received, a_authorization_code,
                   a_access_token, a_current, a_requests, a_responses, a_opened,
                   a_timed_out, a_exchanges, a_outcome, notAuthVars>>

\* a variant of ExchangeCode that sends the request again
ExchangeCode_repeats ==
    /\ a_pc = "exchange"
    /\ Len(a_exchanges) < 2
    /\ a_exchanges' = Append(a_exchanges, a_authorization_code[1])
    /\ \E out \in ExchangeOutcomes :
          LET r == exchange_code_for_token(a_access_token, out)
          IN  /\ a_outcome' = out
              /\ a_message' = exchange_code_for_token_message(out)
              /\ a_access_token' = r.access_token
              /\ a_ret' = IF r.ret THEN "true" ELSE "false"
    /\ a_pc' = IF Len(a_exchanges) = 1 THEN "returned" ELSE a_pc
    /\ a_socket' = IF Len(a_exchanges) = 1 THEN "closed" ELSE a_socket
    /\ UNCHANGED <<a_thread, a_shutdown_request, a_callback_received, a_authorization_code,
                   a_current, a_requests, a_responses, a_opened, a_timed_out, notAuthVars>>

\* return self.exchange_code_for_token(), with test_connection in it
ExchangeCode ==
    /\ a_pc = "exchange"
    /\ a_exchanges' = Append(a_exchanges, a_authorization_code[1])
    /\ \E out \in ExchangeOutcomes :
          LET r == exchange_code_for_token(a_access_token, out)
          IN  /\ a_outcome' = out
              /\ a_message' = exchange_code_for_token_message(out)
              /\ a_access_token' = r.access_token
              /\ a_ret' = IF r.ret THEN "true" ELSE "false"
    /\ WithExit
    /\ a_pc' = "returned"
    /\ UNCHANGED <<a_thread, a_shutdown_request, a_callback_received, a_authorization_code,
                   a_current, a_requests, a_responses, a_opened, a_timed_out, notAuthVars>>

\* serve_forever accepts a request and do_GET answers it: on the callback
\* path a code in the query is stored in self.authorization_code
HandleRequest ==
    /\ a_thread = "serving"
    /\ a_socket = "bound"
    /\ ~a_shutdown_request
    /\ a_requests < MaxRequests
    /\ \E req \in IncomingRequests :
          /\ a_current' = req
          /\ a_responses' = Append(a_responses, [request |-> req, status |-> StatusFor(req)])
          /\ a_authorization_code' =
                IF CarriesCode(req) THEN req.code
                ELSE a_authorization_code
    /\ a_requests' = a_requests + 1
    /\ a_thread' = "handling"
    /\ UNCHANGED <<a_pc, a_socket, a_shutdown_request, a_callback_received, a_access_token,
                   a_opened, a_timed_out, a_exchanges, a_ret, a_outcome, a_message, notAuthVars>>

\* the end of do_GET: callback_received.set() on the callback path
FinishRequest ==
    /\ a_thread = "handling"
    /\ a_callback_received' = (a_callback_received \/ IsCallback(a_current))
    /\ a_current' = NoRequest
    /\ a_thread' = "serving"
    /\ UNCHANGED <<a_pc, a_socket, a_shutdown_request, a_authorization_code, a_access_token,
                   a_requests, a_responses, a_opened, a_timed_out, a_exchanges, a_ret,
                   a_outcome, a_message, notAuthVars>>

\* serve_forever sees the shutdown request and ends
ServeEnds ==
    /\ a_thread = "serving"
    /\ a_shutdown_request
    /\ a_thread' = "stopped"
    /\ UNCHANGED <<a_pc, a_socket, a_shutdown_request, a_callback_received,
                   a_authorization_code, a_access_token, a_current, a_requests,
                   a_responses, a_opened, a_timed_out, a_exchanges, a_ret, a_outcome, a_message, notAuthVars>>

NextAuth ==
    \/ BindOk
    \/ BindFails
    \/ StartThread
    \/ OpenBrowser
    \/ FailBeforeWait
    \/ WaitSignalled
    \/ WaitTimesOut
    \/ ShutdownRequested
    \/ ShutdownReturns
    \/ ExchangeCode
    \/ HandleRequest
    \/ FinishRequest
    \/ ServeEnds

SpecAuth == InitAuth /\ [][NextAuth]_vars

\* start_auth_flow is over: it returned or an exception left it
AuthOver == a_pc \in {"returned", "raised"}

\* the listener answered 400 to a callback request that carried an error
\* reason and no code
DenialAnswered ==
    \E k \in 1..Len(a_responses) :
        /\ IsCallback(a_responses[k].request)
        /\ a_responses[k].request.error_reason # None
        /\ a_responses[k].request.code = None
        /\ a_responses[k].status = 400

(***************************************************************************)
(* C9 (as claimed): on every exit path of start_auth_flow, once the call   *)
(* has returned or raised, the listener thread is no longer serving and    *)
(* the port is no longer bound.                                            *)
(***************************************************************************)
C9_ListenerShutDown ==
    AuthOver => (a_thread \notin {"serving", "handling"} /\ a_socket # "bound")

(***************************************************************************)
(* C10 (as claimed): when the listener got a callback request with an      *)
(* error reason and no code, it answered 400 and set the completion        *)
(* signal, and a flow that got as far as waiting for the callback then     *)
(* fails: no token exchange is issued, no access token is stored and the   *)
(* listener is shut down.                                                  *)
(***************************************************************************)
C10_DenialFails ==
    /\ (DenialAnswered /\ a_thread # "handling") => a_callback_received
    /\ (DenialAnswered /\ AuthOver /\ a_opened) =>
          /\ a_ret = "false"
          /\ a_exchanges = <<>>
          /\ a_access_token = None
          /\ a_thread = "stopped"
          /\ a_socket = "closed"

\* how many times do_GET assigned self.authorization_code in this flow
CodeWrites == Cardinality({k \in 1..Len(a_responses) : CarriesCode(a_responses[k].request)})

\* how many times do_GET called callback_received.set() in this flow
SignalWrites ==
    LET done == IF a_thread = "handling" THEN Len(a_responses) - 1 ELSE Len(a_responses)
    IN  Cardinality({k \in 1..done : IsCallback(a_responses[k].request)})

\* the code of the first request that carried one
FirstCode ==
    LET ks == {k \in 1..Len(a_responses) : CarriesCode(a_responses[k].request)}
        first == CHOOSE k \in ks : \A j \in ks : k <= j
    IN  a_responses[first].request.code[1]

(***************************************************************************)
(* C11 (as claimed): within one flow, under every interleaving of the      *)
(* incoming requests with the waiting caller, the listener writes the      *)
(* authorization code at most once and sets the completion signal at most  *)
(* once, and the code that is exchanged is that single written value.      *)
(***************************************************************************)
C11_WrittenOnce ==
    /\ CodeWrites <= 1
    /\ SignalWrites <= 1
    /\ a_exchanges # <<>> => a_exchanges = <<FirstCode>>

\* exchange_code_for_token sent its request
Exchanged == a_pc = "returned" /\ a_outcome # NoOutcome

\* the token endpoint answered 2xx with the access-token field
TokenGranted ==
    a_outcome.kind = "response" /\ a_outcome.status \in 200..299 /\ a_outcome.has_token

(***************************************************************************)
(* C12 (as claimed): the exchange fails when the token endpoint answers    *)
(* non-2xx or without the access-token field, and on a 2xx answer with the *)
(* field the flow succeeds and holds that access token.                    *)
(***************************************************************************)
C12_ExchangeLaw ==
    (Exchanged /\ a_outcome.kind = "response") =>
        IF TokenGranted
        THEN a_ret = "true" /\ a_access_token = Some(TokenOne)
        ELSE a_ret = "false"

(***************************************************************************)
(* C12 (amended): the exchange fails when the request raises, the token    *)
(* endpoint answers a status other than 200, or the answer lacks           *)
(* access_token; on a 200 answer with access_token the token is stored and *)
(* the flow succeeds exactly when the /user/me test of it answers 200.     *)
(***************************************************************************)
C12_ExchangeValidated ==
    Exchanged =>
        LET granted == /\ a_outcome.kind = "response"
                       /\ a_outcome.status = 200
                       /\ a_outcome.has_token
        IN  /\ a_ret = (IF granted /\ a_outcome.test = "200" THEN "true" ELSE "false")
            /\ a_access_token = (IF granted THEN Some(TokenOne) ELSE None)

\* a token was granted and stored, its /user/me test failed, the flow failed
C12_Witness ==
    /\ Exchanged
    /\ a_outcome.kind = "response" /\ a_outcome.status = 200 /\ a_outcome.has_token
    /\ a_outcome.test = "non200"
    /\ a_access_token = Some(TokenOne)
    /\ a_ret = "false"

(***************************************************************************)
(* The same flow with its scheduling: callback_received.wait returns when  *)
(* the event is set or when its 300 seconds are over, the calling thread   *)
(* and server_thread both get to run, and do_GET ends.                     *)
(***************************************************************************)
AuthFairness ==
    /\ WF_vars(WaitSignalled)
    /\ WF_vars(WaitTimesOut)
    /\ WF_vars(ShutdownRequested)
    /\ WF_vars(ShutdownReturns)
    /\ WF_vars(FinishRequest)
    /\ WF_vars(ServeEnds)

SpecAuthLive == InitAuth /\ [][NextAuth]_vars /\ AuthFairness

\* the wait is over without the event having been set
TimedOut == a_timed_out

\* no request on the redirect path was answered
NoCallbackRequest ==
    \A k \in 1..Len(a_responses) : ~IsCallback(a_responses[k].request)

\* on the timeout path nothing is exchanged and nothing is stored
C13_TimeoutSafe ==
    TimedOut =>
        /\ a_exchanges = <<>>
        /\ a_access_token = None
        /\ a_pc \in {"shutdown", "shutdown_wait", "returned"}
        /\ a_pc = "returned" => a_ret = "false"

(***************************************************************************)
(* C13: when no request on the redirect path sets the event, the caller    *)
(* blocked in the wait wakes (the 300 seconds end), the flow then returns  *)
(* failure, and on this timeout path no token exchange is issued and no    *)
(* access token is stored.                                                 *)
(***************************************************************************)
C13_TimeoutFails ==
    /\ []C13_TimeoutSafe
    /\ (a_pc = "wait") ~> (a_pc # "wait")
    /\ TimedOut ~> (a_pc = "returned" /\ a_ret = "false")

\* the flow timed out with no request on the redirect path and returned False
C13_Witness ==
    /\ TimedOut
    /\ NoCallbackRequest
    /\ a_pc = "returned"
    /\ a_ret = "false"
    /\ a_thread = "stopped"

\* what a creation reports when the create call itself fails
TotalFailureReports ==
    IF c_platform = "deezer"
    THEN {create_deezer_playlist_report(c_token, c_ids, [create |-> x, add |-> "200"]) :
             x \in {"exception", "500"}}
    ELSE {create_spotify_playlist_report(c_spotify, c_ids,
                                         [user |-> "ok", create |-> "exception", add_fail |-> 0])}

\* the playlist was created and the last add-track call failed
CreatePartial ==
    /\ c_pc = "returned"
    /\ \E k \in 1..Len(c_calls) : c_calls[k].op = "create" /\ c_calls[k].ok
    /\ c_calls[Len(c_calls)].op = "add"
    /\ ~c_calls[Len(c_calls)].ok

(***************************************************************************)
(* C14 (as claimed): when the playlist was created and a later add-tracks  *)
(* call fails, the creation reports a failure, issues no call after the    *)
(* failed one (nothing deletes the playlist, the batches added before stay *)
(* added), and what it reports differs from what it reports when the       *)
(* creation fails as a whole.                                              *)
(***************************************************************************)
C14_PartialDistinct ==
    CreatePartial =>
        /\ c_ret = FALSE
        /\ \A k \in 1..Len(c_calls) : c_calls[k].op \in {"current_user", "create", "add"}
        /\ \A k \in 1..(Len(c_calls) - 1) : c_calls[k].ok
        /\ c_report \notin TotalFailureReports

\* the client the creation runs on is authenticated
CreateAuthenticated == IF c_platform = "spotify" THEN c_spotify ELSE c_token # None

\* the create call was issued and the platform accepted it
CreateCallSucceeded == \E k \in 1..Len(c_calls) : c_calls[k].op = "create" /\ c_calls[k].ok

(***************************************************************************)
(* C15: a creation with an empty id list on an authenticated client issues *)
(* no add-track call and, the platform accepting the calls issued, creates *)
(* the playlist and returns success; in every creation an add-track call   *)
(* comes after the accepted create call and only for a non-empty id list.  *)
(***************************************************************************)
C15_EmptyCreates ==
    c_pc = "returned" =>
        /\ (CreateAuthenticated /\ c_ids = <<>>) =>
              /\ CreateAdds = <<>>
              /\ AllOk(c_calls) => (CreateCallSucceeded /\ c_ret = TRUE)
              /\ c_ret = TRUE => CreateCallSucceeded
        /\ \A k \in 1..Len(c_calls) :
              c_calls[k].op = "add" =>
                  /\ c_ids # <<>>
                  /\ \E j \in 1..(k - 1) : c_calls[j].op = "create" /\ c_calls[j].ok

\* createPlaylist("Test", []) on Deezer: the playlist is created, nothing added
C15_Witness ==
    /\ c_pc = "returned"
    /\ c_platform = "deezer"
    /\ c_name = TestName
    /\ c_ids = <<>>
    /\ c_calls = <<CreateCall(TestName, TRUE)>>
    /\ c_ret = TRUE

\* the destination search brought nothing: the request raised, the answer was
\* not 2xx, or it carried no candidate
SearchFailed(resp) ==
    IF p_source = "spotify"
    THEN resp.kind = "exception" \/ resp.status \notin 200..299 \/ resp.data = <<>>
    ELSE resp.kind = "exception" \/ resp.items = <<>>

\* how many of the first k searches returned None
UnresolvedUpTo(k) == Cardinality({j \in 1..k : p_searches[j].result = None})

(***************************************************************************)
(* C16: when the destination search raises, answers non-2xx or answers     *)
(* with no candidate, the search returns None and raises nothing: the      *)
(* conversion lists the track as not found and goes on with the loop.      *)
(***************************************************************************)
C16_FailedSearchIsNone ==
    /\ Len(p_responses) = Len(p_searches)
    /\ \A k \in 1..Len(p_searches) :
          SearchFailed(p_responses[k]) =>
              /\ p_searches[k].result = None
              /\ p_not_found[UnresolvedUpTo(k)] = NotFoundLabel(p_tracks[k])
              /\ p_i >= k
              /\ k = Len(p_searches) => ~p_raised

\* the first search raised, the track is listed as not found and the second
\* track was searched after it
C16_Witness ==
    /\ p_source = "spotify"
    /\ Len(p_searches) = 2
    /\ p_responses[1].kind = "exception"
    /\ p_searches[1].result = None
    /\ p_not_found[1] = NotFoundLabel(p_tracks[1])
    /\ p_searches[2].result # None

\* the platform the conversion writes to
Destination == IF p_source = "spotify" THEN "deezer" ELSE "spotify"

\* the ids handed to create_<destination>_playlist and those its add-track
\* calls carried
PassedIds ==
    UNION {Range(p_creates[k].ids) : k \in 1..Len(p_creates)}
    \cup UNION {IF Destination = "deezer" THEN Range(SongsOf(p_calls[k]))
                ELSE Range(p_calls[k].ids) : k \in 1..Len(p_calls)}

\* the ids the destination search returned in this conversion
SearchedIds ==
    {p_searches[k].result[1].id : k \in {j \in 1..Len(p_searches) : p_searches[j].result # None}}

\* the native ids of the source tracks
SourceIds ==
    {IF p_source = "spotify" THEN p_tracks[k].spotify_id ELSE p_tracks[k].deezer_id :
        k \in 1..Len(p_tracks)}

(***************************************************************************)
(* C17: every id passed to the destination's playlist creation and to its  *)
(* add-track calls was returned by the destination's own search in this    *)
(* conversion; no native id of a source track is passed to the destination.*)
(***************************************************************************)
C17_IdsFromDestinationSearch ==
    \A id \in PassedIds :
        /\ id \in SearchedIds
        /\ id.ns = Destination
        /\ id \notin SourceIds

\* a Deezer playlist converted: the Spotify add call carries the id the
\* Spotify search returned, not the Deezer id 101 of the source track
C17_Witness ==
    /\ p_pc = "DONE"
    /\ p_source = "deezer"
    /\ DeezerId(101) \in SourceIds
    /\ \E k \in 1..Len(p_calls) : p_calls[k].op = "add" /\ p_calls[k].ids = <<SpotifyId(401)>>

\* the outcome of a listing: what it returns and the error message it prints
FetchOutcome(result, message) == [result |-> result, message |-> message]

\* the outcome the same Deezer listing has when its failing request fails in
\* the way `kind`
DeezerOutcomeWith(kind) ==
    LET fail == [at |-> f_fail.at, kind |-> kind]
    IN  FetchOutcome(get_deezer_playlist_tracks(f_pages, fail).tracks,
                     get_deezer_playlist_tracks_message(fail))

(***************************************************************************)
(* C18: in the Deezer listing a 403 or 404 answer to a page request ends   *)
(* the listing with an empty result, no further page is requested, and     *)
(* the outcome (result and message) differs from the one of a transport    *)
(* failure and from the one of another non-2xx status on that request.     *)
(***************************************************************************)
C18_ForbiddenNotFound ==
    (f_pc = "returned" /\ f_platform = "deezer" /\ f_fail.kind \in {"403", "404"}) =>
        /\ f_result = <<>>
        /\ f_requests = f_fail.at
        /\ FetchOutcome(f_result, f_message) \notin
              {DeezerOutcomeWith("exception"), DeezerOutcomeWith("500")}

\* the second page of a playlist answers 403: nothing is returned, two
\* requests were made
C18_Witness ==
    /\ f_pc = "returned"
    /\ f_platform = "deezer"
    /\ Len(f_pages) = 2
    /\ f_pages[1] # <<>>
    /\ f_fail = [at |-> 2, kind |-> "403"]
    /\ f_result = <<>>
    /\ f_requests = 2

\* a step that issues a search call
SearchIssued == Len(p_searches') # Len(p_searches)

\* what holds of the searches made so far
C19_OnePerTrack ==
    /\ Len(p_searches) <= Len(p_tracks)
    /\ \A k \in 1..Len(p_searches) : p_searches[k].track = p_tracks[k]
    /\ p_pc \in {"CREATING_DESTINATION", "DONE"} => Len(p_searches) = Len(p_tracks)
    /\ p_slept = InterCallDelay * (Len(p_searches) - (IF p_raised THEN 1 ELSE 0))

\* what holds of a step that issues a search
C19_SearchStep ==
    SearchIssued =>
        /\ Len(p_searches') = Len(p_searches) + 1
        /\ p_searches'[Len(p_searches')].track = p_tracks[Len(p_searches) + 1]
        /\ p_slept = InterCallDelay * Len(p_searches)

(***************************************************************************)
(* C19: the conversion searches the tracks one after the other and never   *)
(* twice: the k-th search call is for the k-th source track and is issued  *)
(* after k - 1 pauses of 100 ms, one after each earlier search; a loop     *)
(* that ends has made exactly as many search calls as there are tracks.    *)
(***************************************************************************)
C19_SequentialNoRetry == []C19_OnePerTrack /\ [][C19_SearchStep]_vars

\* two tracks, the first search failed and was not made again: two searches,
\* two pauses
C19_Witness ==
    /\ p_pc = "CREATING_DESTINATION"
    /\ Len(p_tracks) = 2
    /\ Len(p_searches) = 2
    /\ p_responses[1].kind = "exception"
    /\ p_searches[2].track = p_tracks[2]
    /\ p_slept = 2 * InterCallDelay

\* what holds before and after the authorization URL is opened
C20_ServingWhenOpened ==
    /\ a_opened => (a_socket # "unbound" /\ a_thread # "none")
    /\ (a_pc = "returned" /\ a_socket = "unbound") =>
          /\ ~a_opened
          /\ a_thread = "none"
          /\ a_ret = "false"
          /\ a_message = LocalServerError
          /\ a_exchanges = <<>>
          /\ a_access_token = None

\* the step that opens the authorization URL
C20_OpenStep ==
    (~a_opened /\ a_opened') => (a_socket = "bound" /\ a_thread \in {"serving", "handling"})

(***************************************************************************)
(* C20: in start_auth_flow the listener is bound to port 8080 and its      *)
(* thread is serving when the authorization URL is opened; when the bind   *)
(* fails the URL is never opened and the flow returns failure with the     *)
(* local-server (port) error.                                              *)
(***************************************************************************)
C20_BoundBeforeOpen == []C20_ServingWhenOpened /\ [][C20_OpenStep]_vars

\* the URL has just been opened: the socket is bound and the thread serves
C20_Witness ==
    /\ a_pc = "wait"
    /\ a_opened
    /\ a_socket = "bound"
    /\ a_thread = "serving"
    /\ a_responses = <<>>

(***************************************************************************)
(* C21 (as claimed): every request the listener answered that is not a GET *)
(* on the redirect path was answered 404, and such requests leave the      *)
(* completion signal and the captured code alone: the signal is set only   *)
(* when a GET on the redirect path was answered, and a code is held only   *)
(* when such a GET carried one.                                            *)
(***************************************************************************)
C21_OthersGet404 ==
    /\ \A k \in 1..Len(a_responses) :
          ~IsCallback(a_responses[k].request) => a_responses[k].status = 404
    /\ a_callback_received =>
          \E k \in 1..Len(a_responses) : IsCallback(a_responses[k].request)
    /\ a_authorization_code # None =>
          \E k \in 1..Len(a_responses) :
              /\ CarriesCode(a_responses[k].request)
              /\ a_responses[k].request.code = a_authorization_code

(***************************************************************************)
(* Playlist URLs: str.startswith, str.split, urllib.parse.urlparse and the *)
(* two parsers built on them. A parser's result is None or Some(text);     *)
(* Some(<<>>) is the empty str, which Python takes as false.               *)
(***************************************************************************)
Https == <<"h","t","t","p","s",":","/","/">>
SpotifyCom == <<"s","p","o","t","i","f","y",".","c","o","m">>
DeezerCom == <<"d","e","e","z","e","r",".","c","o","m">>
LinkDeezerCom == <<"l","i","n","k",".","d","e","e","z","e","r",".","c","o","m">>
PlaylistSegment == <<"/","p","l","a","y","l","i","s","t","/">>
SpotifyUriPrefix == <<"s","p","o","t","i","f","y",":","p","l","a","y","l","i","s","t",":">>
SpotifyScheme == <<"s","p","o","t","i","f","y",":">>
SpotifyPlaylistId == <<"3","7","i">>
DeezerPlaylistId == <<"9">>

\* what the user may type as a playlist URL
CanonicalDeezerUrl == Https \o <<"w","w","w",".","d","e","e","z","e","r",".","c","o","m">> \o PlaylistSegment \o DeezerPlaylistId
DeezerTrackUrl == Https \o <<"w","w","w",".","d","e","e","z","e","r",".","c","o","m","/","t","r","a","c","k","/","9">>
ShortUrl == Https \o LinkDeezerCom \o <<"/","s","/","a","b">>
ShortPlaylistUrl == Https \o LinkDeezerCom \o PlaylistSegment \o DeezerPlaylistId

ShortUrls == {ShortUrl, ShortPlaylistUrl}

PlaylistUrls ==
    {Https \o <<"o","p","e","n",".","s","p","o","t","i","f","y",".","c","o","m">> \o PlaylistSegment \o SpotifyPlaylistId,
     Https \o <<"o","p","e","n",".","s","p","o","t","i","f","y",".","c","o","m">> \o PlaylistSegment \o SpotifyPlaylistId \o <<"?","s","i","=","1">>,
     SpotifyUriPrefix \o SpotifyPlaylistId,
     SpotifyUriPrefix,
     SpotifyScheme \o <<"t","r","a","c","k",":","3","7","i">>,
     Https \o <<"o","p","e","n",".","s","p","o","t","i","f","y",".","c","o","m","/","a","l","b","u","m","/","3","7","i">>,
     Https \o <<"o","p","e","n",".","s","p","o","t","i","f","y",".","c","o","m">> \o PlaylistSegment,
     Https \o <<"s","p","o","t","i","f","y",".","c","o","m","@","e","v","i","l",".","o","r","g">> \o PlaylistSegment \o SpotifyPlaylistId,
     Https \o <<"e","v","i","l",".","o","r","g">> \o PlaylistSegment \o SpotifyPlaylistId \o <<"?","u","=","s","p","o","t","i","f","y",".","c","o","m">>,
     Https \o <<"[","s","p","o","t","i","f","y",".","c","o","m">> \o PlaylistSegment \o SpotifyPlaylistId,
     <<"o","p","e","n",".","s","p","o","t","i","f","y",".","c","o","m">> \o PlaylistSegment \o SpotifyPlaylistId,
     CanonicalDeezerUrl,
     Https \o <<"d","e","e","z","e","r",".","c","o","m","/","f","r">> \o PlaylistSegment \o DeezerPlaylistId,
     DeezerTrackUrl,
     Https \o <<"n","o","t","d","e","e","z","e","r",".","c","o","m">> \o PlaylistSegment \o DeezerPlaylistId,
     Https \o <<"[","w","w","w",".","d","e","e","z","e","r",".","c","o","m">> \o PlaylistSegment \o DeezerPlaylistId,
     Https \o <<"e","x","a","m","p","l","e",".","o","r","g">> \o PlaylistSegment \o DeezerPlaylistId,
     <<>>}
    \cup ShortUrls

\* s.startswith(p)
StartsWith(s, p) == Len(p) <= Len(s) /\ SubSeq(s, 1, Len(p)) = p

\* the least index from `from` on where s holds one of the characters, or
\* Len(s) + 1
FindChar(s, chars, from) ==
    LET ks == {k \in from..Len(s) : s[k] \in chars}
    IN  IF ks = {} THEN Len(s) + 1 ELSE CHOOSE k \in ks : \A j \in ks : k <= j

\* s.split(sep)[-1]: what follows the last sep, s itself when there is none
SplitLast(s, sep) ==
    LET ks == {k \in 1..(Len(s) - Len(sep) + 1) : SubSeq(s, k, k + Len(sep) - 1) = sep}
    IN  IF ks = {} THEN s
        ELSE LET last == CHOOSE k \in ks : \A j \in ks : j <= k
             IN  SubSeq(s, last + Len(sep), Len(s))

\* s.split(c)[0] for a one-character c
SplitFirst(s, c) == SubSeq(s, 1, FindChar(s, {c}, 1) - 1)

\* the characters urlsplit allows in a scheme
SchemeChars == Range(LowerLetters) \cup Range(UpperLetters) \cup Digits \cup {"+", "-", "."}

\* urlparse(url): scheme, netloc, path and query; ok is FALSE where
\* urlsplit raises ValueError (a netloc with one bracket only)
urlparse(url) ==
    LET colon == FindChar(url, {":"}, 1)
        has_scheme == /\ colon \in 2..Len(url)
                      /\ url[1] \in Range(LowerLetters) \cup Range(UpperLetters)
                      /\ \A k \in 1..(colon - 1) : url[k] \in SchemeChars
        rest == IF has_scheme THEN SubSeq(url, colon + 1, Len(url)) ELSE url
        has_netloc == StartsWith(rest, <<"/", "/">>)
        netloc_end == FindChar(rest, {"/", "?", "#"}, 3)
        netloc == IF has_netloc THEN SubSeq(rest, 3, netloc_end - 1) ELSE <<>>
        tail == IF has_netloc THEN SubSeq(rest, netloc_end, Len(rest)) ELSE rest
        no_fragment == SplitFirst(tail, "#")
        path == SplitFirst(no_fragment, "?")
    IN  [ok |-> ("[" \in Range(netloc)) = ("]" \in Range(netloc)),
         scheme |-> IF has_scheme THEN Lower(SubSeq(url, 1, colon - 1)) ELSE <<>>,
         netloc |-> netloc,
         path |-> path,
         query |-> SubSeq(no_fragment, Len(path) + 2, Len(no_fragment))]

\* what Python takes as true in `if playlist_id:`
Truthy(r) == r # None /\ r[1] # <<>>

\* parse_spotify_playlist_url: the id, and the message printed when
\* urlparse raised
parse_spotify_playlist_url(url) ==
    IF StartsWith(url, SpotifyUriPrefix)
    THEN [id |-> Some(SplitLast(url, <<":">>)), message |-> ""]
    ELSE LET parsed == urlparse(url)
         IN  IF ~parsed.ok THEN [id |-> None, message |-> "Erreur analyse URL Spotify"]
             ELSE IF IsIn(SpotifyCom, parsed.netloc) /\ IsIn(PlaylistSegment, parsed.path)
                  THEN [id |-> Some(SplitFirst(SplitLast(parsed.path, PlaylistSegment), "?")),
                        message |-> ""]
             ELSE [id |-> None, message |-> ""]

\* how deep parse_deezer_playlist_url may call itself before the interpreter
\* raises RecursionError (sys.getrecursionlimit(), scaled down)
RecursionLimit == 3

\* what requests.head(url, allow_redirects=True) does: it raises, or it
\* answers with a status and the URL the redirects ended at
HeadOutcomes ==
    {[kind |-> "exception", status |-> 0, url |-> <<>>],
     [kind |-> "response", status |-> 404, url |-> <<>>]}
    \cup {[kind |-> "response", status |-> 200, url |-> u] :
             u \in {CanonicalDeezerUrl, DeezerTrackUrl, ShortUrl}}

\* the `Gestion des URLs standards` test on a parsed URL
DeezerStandardId(parsed) ==
    IF IsIn(DeezerCom, parsed.netloc) /\ IsIn(PlaylistSegment, parsed.path)
    THEN Some(SplitFirst(SplitLast(parsed.path, PlaylistSegment), "?"))
    ELSE None

\* parse_deezer_playlist_url at call depth `depth`: the id, the message
\* printed when urlparse raised, and the HEAD requests sent. heads[depth] is
\* what the request of that depth does. The bare `except: pass` takes a
\* failed request and the RecursionError of a call too deep, and the
\* standard test then runs on the short link itself.
RECURSIVE parse_deezer_playlist_url(_, _, _)
parse_deezer_playlist_url(url, heads, depth) ==
    LET parsed == urlparse(url)
    IN  IF ~parsed.ok
        THEN [id |-> None, message |-> "Erreur analyse URL Deezer", requests |-> 0]
        ELSE IF IsIn(LinkDeezerCom, parsed.netloc)
        THEN LET response == heads[depth]
             IN  IF response.kind = "response" /\ response.status = 200
                    /\ depth < RecursionLimit
                 THEN LET r == parse_deezer_playlist_url(response.url, heads, depth + 1)
                      IN  [r EXCEPT !.requests = @ + 1]
                 ELSE [id |-> DeezerStandardId(parsed), message |-> "", requests |-> 1]
        ELSE [id |-> DeezerStandardId(parsed), message |-> "", requests |-> 0]

\* the branch convert_playlist_by_url takes
UrlPlatform(url) ==
    IF IsIn(SpotifyCom, url) \/ StartsWith(url, SpotifyScheme) THEN "spotify"
    ELSE IF IsIn(DeezerCom, url) THEN "deezer"
    ELSE "none"

\* requests are sent for a short link only
HeadSequences(url) ==
    IF IsIn(LinkDeezerCom, url)
    THEN [1..RecursionLimit -> HeadOutcomes]
    ELSE {[k \in 1..RecursionLimit |-> [kind |-> "exception", status |-> 0, url |-> <<>>]]}

(***************************************************************************)
(* SpecUrl: convert_playlist_by_url on every input URL.                    *)
(***************************************************************************)
InitUrl ==
    /\ u_pc = "call"
    /\ u_url \in PlaylistUrls
    /\ u_heads \in HeadSequences(u_url)
    /\ u_playlist_id = None
    /\ u_requests = 0
    /\ u_message = ""
    /\ u_started = "none"
    /\ MatchIdle /\ FetchIdle /\ CreateIdle /\ PipeIdle /\ AuthIdle
    /\ NormIdle /\ SetupIdle

\* playlist_id = self.parse_spotify_playlist_url(url)
ParseSpotifyUrl ==
    /\ u_pc = "call"
    /\ UrlPlatform(u_url) = "spotify"
    /\ LET r == parse_spotify_playlist_url(u_url)
       IN  /\ u_playlist_id' = r.id
           /\ u_message' = r.message
    /\ u_pc' = "parsed_spotify"
    /\ UNCHANGED <<u_url, u_heads, u_requests, u_started, notUrlVars>>

\* playlist_id = self.parse_deezer_playlist_url(url)
ParseDeezerUrl ==
    /\ u_pc = "call"
    /\ UrlPlatform(u_url) = "deezer"
    /\ LET r == parse_deezer_playlist_url(u_url, u_heads, 1)
       IN  /\ u_playlist_id' = r.id
           /\ u_message' = r.message
           /\ u_requests' = r.requests
    /\ u_pc' = "parsed_deezer"
    /\ UNCHANGED <<u_url, u_heads, u_started, notUrlVars>>

\* neither platform is named in the URL
UnsupportedUrl ==
    /\ u_pc = "call"
    /\ UrlPlatform(u_url) = "none"
    /\ u_message' = "URL non supportee"
    /\ u_pc' = "done"
    /\ UNCHANGED <<u_url, u_heads, u_playlist_id, u_requests, u_started, notUrlVars>>

\* `if playlist_id:` the conversion of that direction is called
StartConversion ==
    /\ u_pc \in {"parsed_spotify", "parsed_deezer"}
    /\ Truthy(u_playlist_id)
    /\ u_started' = IF u_pc = "parsed_spotify" THEN "spotify_to_deezer" ELSE "deezer_to_spotify"
    /\ u_message' = IF u_pc = "parsed_spotify" THEN "Playlist Spotify detectee"
                    ELSE "Playlist Deezer detectee"
    /\ u_pc' = "done"
    /\ UNCHANGED <<u_url, u_heads, u_playlist_id, u_requests, notUrlVars>>

\* `else:` the URL is reported invalid
RejectUrl ==
    /\ u_pc \in {"parsed_spotify", "parsed_deezer"}
    /\ ~Truthy(u_playlist_id)
    /\ u_message' = IF u_pc = "parsed_spotify" THEN "URL Spotify invalide"
                    ELSE "URL Deezer invalide"
    /\ u_pc' = "done"
    /\ UNCHANGED <<u_url, u_heads, u_playlist_id, u_requests, u_started, notUrlVars>>

NextUrl ==
    \/ ParseSpotifyUrl
    \/ ParseDeezerUrl
    \/ UnsupportedUrl
    \/ StartConversion
    \/ RejectUrl

SpecUrl == InitUrl /\ [][NextUrl]_vars

\* the host of a URL: the netloc without user information and port
UrlHost(url) ==
    LET netloc == urlparse(url).netloc
        host_port == SplitLast(netloc, <<"@">>)
    IN  Lower(SplitFirst(host_port, ":"))

\* the host is the domain or lies under it
HostUnder(host, domain) ==
    \/ host = domain
    \/ /\ Len(host) > Len(domain)
       /\ SubSeq(host, Len(host) - Len(domain), Len(host)) = <<".">> \o domain

\* the URL names a host of one of the two platforms (or is a Spotify URI)
RecognizedHost(url) ==
    \/ StartsWith(url, SpotifyUriPrefix)
    \/ /\ urlparse(url).ok
       /\ HostUnder(UrlHost(url), SpotifyCom) \/ HostUnder(UrlHost(url), DeezerCom)

\* the URL has a /playlist/<id> segment with an id in it
HasPlaylistId(url) ==
    IF StartsWith(url, SpotifyUriPrefix) THEN Len(url) > Len(SpotifyUriPrefix)
    ELSE LET path == urlparse(url).path
         IN  IsIn(PlaylistSegment, path) /\ SplitLast(path, PlaylistSegment) # <<>>

\* the URL is a short link, which is resolved before it is parsed
IsShortLink(url) == UrlHost(url) = LinkDeezerCom

InvalidUrlMessages == {"URL Spotify invalide", "URL Deezer invalide", "URL non supportee"}

(***************************************************************************)
(* C22 (as claimed): when the URL given names an unrecognized host or has  *)
(* no /playlist/<id> segment (short links aside, which are resolved        *)
(* first), convert_playlist_by_url ends with the parser having returned no *)
(* id, with no conversion called and with the invalid-URL or the           *)
(* unsupported-URL message.                                                *)
(***************************************************************************)
C22_BadUrlRejected ==
    (/\ u_pc = "done"
     /\ ~IsShortLink(u_url)
     /\ ~RecognizedHost(u_url) \/ ~HasPlaylistId(u_url)) =>
        /\ ~Truthy(u_playlist_id)
        /\ u_started = "none"
        /\ u_message \in InvalidUrlMessages

\* the first HEAD request ended at a canonical URL
DirectlyResolved == u_heads[1].kind = "response" /\ u_heads[1].status = 200
                    /\ ~IsShortLink(u_heads[1].url)

\* the redirect is not resolved: the first request fails or answers another
\* status than 200, or every request ends at a short link again
Unresolvable ==
    \/ u_heads[1].kind = "exception"
    \/ u_heads[1].status # 200
    \/ \A k \in 1..RecursionLimit :
          /\ u_heads[k].kind = "response"
          /\ u_heads[k].status = 200
          /\ IsShortLink(u_heads[k].url)

(***************************************************************************)
(* C23 (as claimed): for a short link, when the HEAD request ends at a     *)
(* canonical URL the parser returns what that URL parses to (its id), and  *)
(* when the redirect is not resolved the parser returns no id; in both     *)
(* cases it returns, after at most RecursionLimit requests.                *)
(***************************************************************************)
C23_ShortLinkResolved ==
    (u_pc \in {"parsed_deezer", "done"} /\ IsShortLink(u_url)) =>
        /\ u_requests \in 1..RecursionLimit
        /\ DirectlyResolved =>
              u_playlist_id = DeezerStandardId(urlparse(u_heads[1].url))
        /\ Unresolvable => (~Truthy(u_playlist_id) /\ u_started = "none")

\* an exception left the conversion: neither convert_playlist_by_url nor the
\* branches of main's loop that call it have a handler, so it ends the process
ConversionFatal == p_raised

(***************************************************************************)
(* C24 (as claimed): whatever the platform calls answer, a conversion      *)
(* called from the menu loop is never left by an exception: it ends in a   *)
(* reported outcome and control goes back to the menu loop.                *)
(***************************************************************************)
C24_NoOperationFatal == ~ConversionFatal

(***************************************************************************)
(* SpecNorm: the normalization of search_deezer_track and                  *)
(* search_spotify_track, re.sub(r'[^\w\s]', '', text), on every text over  *)
(* NormChars of at most MaxText characters, applied once and once more.    *)
(***************************************************************************)
MaxText == 3

NormChars == {"a", "B", "7", "_", " ", "!", "'"}

NormTexts == UNION {[1..n -> NormChars] : n \in 0..MaxText}

InitNorm ==
    /\ n_pc = "call"
    /\ n_text \in NormTexts
    /\ n_clean = <<>>
    /\ n_again = <<>>
    /\ MatchIdle /\ FetchIdle /\ CreateIdle /\ PipeIdle /\ AuthIdle
    /\ UrlIdle /\ SetupIdle

\* clean_title = re.sub(r'[^\w\s]', '', title)
Normalize ==
    /\ n_pc = "call"
    /\ n_clean' = Clean(n_text)
    /\ n_pc' = "once"
    /\ UNCHANGED <<n_text, n_again, notNormVars>>

\* the same on a text that was normalized already (a title that comes back
\* from the other platform's search)
NormalizeAgain ==
    /\ n_pc = "once"
    /\ n_again' = Clean(n_clean)
    /\ n_pc' = "twice"
    /\ UNCHANGED <<n_text, n_clean, notNormVars>>

NextNorm ==
    \/ Normalize
    \/ NormalizeAgain

SpecNorm == InitNorm /\ [][NextNorm]_vars

\* a letter or a digit
IsAlnumChar(c) == IsWordChar(c) /\ c # "_"

\* the text holds letters, digits and whitespace only
AlnumSpaceOnly(s) == \A k \in 1..Len(s) : IsAlnumChar(s[k]) \/ IsSpaceChar(s[k])

(***************************************************************************)
(* C25: normalization is idempotent, normalize(normalize(s)) =             *)
(* normalize(s) for every text s, and a text of letters, digits and        *)
(* whitespace only is returned unchanged.                                  *)
(***************************************************************************)
C25_Idempotent ==
    /\ n_pc = "twice" => n_again = n_clean
    /\ (n_pc \in {"once", "twice"} /\ AlnumSpaceOnly(n_text)) => n_clean = n_text

\* a text with two characters to remove was normalized twice
C25_Witness ==
    /\ n_pc = "twice"
    /\ n_text = <<"!", "a", "'">>
    /\ n_clean = <<"a">>
    /\ n_again = <<"a">>

(***************************************************************************)
(* C26 (as claimed): create_deezer_playlist returns True for a non-empty   *)
(* list of track ids only when it sent an add-tracks call that carried     *)
(* those ids and was answered 200.                                         *)
(***************************************************************************)
C26_SuccessOnlyWhenAdded ==
    (c_pc = "returned" /\ c_platform = "deezer" /\ c_ids # <<>> /\ c_ret = TRUE) =>
        \E k \in 1..Len(c_calls) :
            /\ c_calls[k].op = "add"
            /\ c_calls[k].ok
            /\ c_calls[k].ids = JoinIds(c_ids)

(***************************************************************************)
(* SpecSetup: the Deezer setup calls of one session, menu choices 4        *)
(* (setup_deezer with a token typed in) and 5 (setup_deezer_oauth), in any *)
(* order, at most MaxSetups of them.                                       *)
(***************************************************************************)
MaxSetups == 3

ManualTokenOne == <<"m","1">>
ManualTokenTwo == <<"m","2">>
ManualTokens == {ManualTokenOne, ManualTokenTwo}

\* what /user/me answers in setup_deezer
UserMeAnswers == {"200", "401", "exception"}

\* what start_auth_flow leaves: the value returned and the access token of
\* the DeezerOAuth object, either with no exchange made or as
\* exchange_code_for_token leaves them; or the call is left by an exception
StartAuthFlowResults ==
    {[raised |-> FALSE, success |-> FALSE, access_token |-> None],
     [raised |-> TRUE, success |-> FALSE, access_token |-> None]}
    \cup {[raised |-> FALSE,
           success |-> exchange_code_for_token(None, out).ret,
           access_token |-> exchange_code_for_token(None, out).access_token] :
             out \in ExchangeOutcomes}

\* setup_deezer: the token is stored before it is tested
setup_deezer(stored, access_token, answer) ==
    [token |-> Some(access_token), ret |-> IF answer = "200" THEN "true" ELSE "false"]

\* setup_deezer_oauth: the token of the flow is copied when the flow
\* succeeded and holds one
setup_deezer_oauth(stored, configured, flow) ==
    IF ~configured THEN [token |-> stored, ret |-> "false"]
    ELSE IF flow.raised THEN [token |-> stored, ret |-> "raised"]
    ELSE IF flow.success /\ flow.access_token # None
         THEN [token |-> flow.access_token, ret |-> "true"]
    ELSE [token |-> stored, ret |-> "false"]

InitSetup ==
    /\ s_pc = "menu"
    /\ s_token = None
    /\ s_validated = {}
    /\ s_log = <<>>
    /\ MatchIdle /\ FetchIdle /\ CreateIdle /\ PipeIdle /\ AuthIdle
    /\ UrlIdle /\ NormIdle

\* choice 4: converter.setup_deezer(token)
SetupDeezer ==
    /\ s_pc = "menu"
    /\ Len(s_log) < MaxSetups
    /\ \E access_token \in ManualTokens, answer \in UserMeAnswers :
          LET r == setup_deezer(s_token, access_token, answer)
          IN  /\ s_token' = r.token
              /\ s_validated' = IF answer = "200" THEN s_validated \cup {access_token}
                                ELSE s_validated
              /\ s_log' = Append(s_log, [op |-> "setup_deezer", ret |-> r.ret,
                                         before |-> s_token, after |-> r.token])
    /\ UNCHANGED <<s_pc, notSetupVars>>

\* choice 5: converter.setup_deezer_oauth(); an exception that leaves it
\* leaves main too
SetupDeezerOauth ==
    /\ s_pc = "menu"
    /\ Len(s_log) < MaxSetups
    /\ \E configured \in BOOLEAN, flow \in StartAuthFlowResults :
          LET r == setup_deezer_oauth(s_token, configured, flow)
          IN  /\ s_token' = r.token
              /\ s_validated' = IF configured /\ flow.success
                                THEN s_validated \cup {flow.access_token[1]}
                                ELSE s_validated
              /\ s_log' = Append(s_log, [op |-> "setup_deezer_oauth", ret |-> r.ret,
                                         before |-> s_token, after |-> r.token])
              /\ s_pc' = IF r.ret = "raised" THEN "raised" ELSE "menu"
    /\ UNCHANGED notSetupVars

NextSetup ==
    \/ SetupDeezer
    \/ SetupDeezerOauth

SpecSetup == InitSetup /\ [][NextSetup]_vars

(***************************************************************************)
(* C27 (as claimed): after any sequence of setup calls the Deezer token    *)
(* the converter holds is absent or one whose /user/me validation          *)
(* succeeded, and a setup call that reported failure left the token that   *)
(* was stored before it unchanged.                                         *)
(***************************************************************************)
C27_StoredTokenValidated ==
    /\ s_token # None => s_token[1] \in s_validated
    /\ \A k \in 1..Len(s_log) :
          s_log[k].ret = "false" => s_log[k].after = s_log[k].before

\* the codes the listener captured in this run
CapturedCodes ==
    {a_responses[k].request.code[1] :
        k \in {j \in 1..Len(a_responses) : CarriesCode(a_responses[j].request)}}

\* the token-exchange request was sent at most once, with a captured code,
\* and on neither the timeout nor the bind-failure path
C28_ExchangeState ==
    /\ Len(a_exchanges) <= 1
    /\ \A k \in 1..Len(a_exchanges) : a_exchanges[k] \in CapturedCodes
    /\ a_timed_out => a_exchanges = <<>>
    /\ a_socket = "unbound" => a_exchanges = <<>>

\* a step that sends it starts where the completion signal is set, the
\* shutdown was requested and serve_forever has ended
C28_ExchangeStep ==
    a_exchanges' # a_exchanges =>
        /\ a_callback_received
        /\ a_shutdown_request
        /\ a_thread = "stopped"
        /\ a_exchanges' = Append(a_exchanges, a_authorization_code[1])

(***************************************************************************)
(* C28: in one run of start_auth_flow the token-exchange request is sent   *)
(* at most once, only after the completion signal was set and the listener *)
(* shutdown was requested, and only with an authorization code the         *)
(* listener captured in this run; it is never sent on the timeout path or  *)
(* the bind-failure path.                                                  *)
(***************************************************************************)
C28_ExchangeOnceAfterSignal == []C28_ExchangeState /\ [][C28_ExchangeStep]_vars

\* the exchange was sent with the code of the one request that carried one
C28_Witness ==
    /\ a_pc = "returned"
    /\ a_exchanges = <<CodeOne>>
    /\ a_callback_received
    /\ a_shutdown_request
    /\ ~a_timed_out

====
